---- MODULE Spec2Model ----
(***************************************************************************)
(* A model of the flense client SDK (src/unnamed/part_000): the ParseJob   *)
(* handle with its memoized job creation, the three ways of consuming it   *)
(* (then, wait, subscribe) and the polling loop of Flense.waitForJob.      *)
(*                                                                         *)
(* JavaScript runs one task at a time: every action below is one           *)
(* synchronous run of code (a method call of the caller, or the            *)
(* continuation that runs when a promise settles, a timer fires or a       *)
(* response arrives).  Continuations of different promises may be          *)
(* interleaved with calls of the caller in any order.                      *)
(***************************************************************************)
EXTENDS Naturals, Sequences, FiniteSets, TLC

\* ------------------------------------------------------------------ bounds

\* How many times the caller consumes the handle (then / wait / subscribe).
MaxTriggers == 2
\* How many status requests one waitForJob loop is followed for.
MaxPolls == 3

\* How many wait() calls the runs against a live job make.
MaxWaits == 1
\* How many events the service transmits on one stream.
MaxEvents == 2
\* The same where the stream carries progress and content of a job that completes.
MaxChunks == 4

Triggers == 1..MaxTriggers

\* ------------------------------------------------------------------ values

Null == "null"
\* Identifiers the service may assign to a created job.
JobIds == {"job_a", "job_b"}
\* src/unnamed/part_000:85-91
JobState == {"created", "active", "completed", "failed", "cancelled", "archived"}
\* An optional string field of a response: absent, empty, or some text.
Absent == "<absent>"
Markdowns == {Absent, "", "MD"}
Contents == {Absent, "", "TXT"}
ErrorTexts == {Absent, "", "bad pdf"}
HttpStatuses == {500}
\* Raw bodies of a non-2xx answer to a status request (response.text(), 583).
HttpBodies == {"", "job not found"}
ApiKey == "flense_key"

NoValue == [kind |-> "none"]
IdValue(id) == [kind |-> "id", id |-> id]

VARIABLES
    handle,        \* "none", or the factory that built the ParseJob: "url" / "file"
    _options,      \* ParseJob._options
    jobIdPromise,  \* ParseJob.jobIdPromise: 0 (null) or the index of a creation
    _jobId,        \* ParseJob._jobId
    creations,     \* one record per createJob invocation: its request and promise
    esSupported,   \* typeof EventSource !== "undefined"
    client,        \* the Flense client: what `new Flense(config)` did, and its apiKey
    tkind,         \* per trigger: "none", "then", "wait", "subscribe"
    tstate,        \* per trigger: where its promise chain stands
    tprom,         \* per trigger: the promise getJobId() returned to it
    tobs,          \* per trigger: what its continuation received from that promise
    jobIdArg,      \* per waitForJob call: its jobId parameter
    result,        \* per trigger: the value or error its returned promise settled with
    polls,         \* per wait: status requests issued
    sleeps,        \* per wait: setTimeout sleeps started
    polled,        \* per wait: the job ids its status requests named
    lastResp,      \* per wait: the last response the loop received
    answered,      \* per wait: responses the service has sent to the loop
    firstTerminal, \* per wait: position of the first completed/failed answer, or 0
    cancelled,     \* per subscribe: the closure's `cancelled`
    cancelledEarly,\* per subscribe: its cancellation function was called before the id resolved
    unsubscribe,   \* per subscribe: the closure's `unsubscribe` ("null", "noop", "close")
    streams,       \* per subscribe: EventSource objects constructed
    esState,       \* per subscribe: "none", "open", "closed"
    cblog,         \* per subscribe: callbacks invoked, in order
    hook,          \* the state of a useParseJob instance, NoHook when the caller
                   \* passes callbacks of its own
    connected,     \* per subscribe: the stream's connection is established
    sent,          \* per subscribe: the events the service transmitted, in order
    taken,         \* per subscribe: how many of them were dispatched to a listener
    srvState       \* the job's state on the service

handleVars == <<handle, _options, jobIdPromise, _jobId, creations, esSupported, client>>
trigVars == <<tkind, tstate, tprom, tobs, jobIdArg, result>>
waitVars == <<polls, sleeps, polled, lastResp, answered, firstTerminal>>
streamVars == <<connected, sent, taken>>
subVars == <<cancelled, cancelledEarly, unsubscribe, streams, esState, cblog, hook, streamVars>>
vars == <<handleVars, trigVars, waitVars, subVars, srvState>>

\* A state cell of the hook (useState): null, or a value.
Unset == [set |-> FALSE]
Value(v) == [set |-> TRUE, value |-> v]

\* No useParseJob instance: the callbacks are the caller's own.
NoHook == [mounted |-> FALSE]

\* ----------------------------------------------------------------- errors

\* An error message that leaves the response body out.
HttpErrorStatusOnly(status, body) == [kind |-> "http", status |-> status, body |-> Absent]

\* src/unnamed/part_000:584  `Flense API error (${response.status}): ${errorText}`
HttpError(status, body) == [kind |-> "http", status |-> status, body |-> body]
\* fetch() rejecting: src/unnamed/part_000:577
NetworkError == [kind |-> "network"]
\* The message built with `||`, which also replaces an empty error text.
JobFailedErrorOr(jobId, error) ==
    [kind |-> "jobFailed", jobId |-> jobId,
     message |-> IF error = Absent \/ error = "" THEN "Unknown error" ELSE error]

\* src/unnamed/part_000:957-959  `Job ${jobId} failed: ${response.error ?? "Unknown error"}`
JobFailedError(jobId, error) ==
    [kind |-> "jobFailed", jobId |-> jobId,
     message |-> IF error = Absent THEN "Unknown error" ELSE error]

\* What the network may answer to any request: a 2xx body, a non-2xx, or no answer.
Transport == {"ok", "http", "network"}

\* src/unnamed/part_000:567-588  the error request() throws for a failed exchange
RequestError(net, status) ==
    IF net = "http" THEN HttpError(status, "oops") ELSE NetworkError

\* The same for a status request, whose non-2xx bodies the runs vary.
StatusRequestError(r) ==
    IF r.net = "http" THEN HttpError(r.status, r.body) ELSE NetworkError

\* ----------------------------------------------------------------- client

\* config.apiKey and process.env.FLENSE_API_KEY: not set, empty, or a key.
ConfigKeys == {Absent, "", ApiKey}
EnvKeys == {Absent, "", "flense_env_key"}

\* No `new Flense(...)` has run.
NoClient == [state |-> "none"]

\* `a || b`, which also passes over an empty key.
ResolveApiKeyOr(cfg, env) == IF cfg = Absent \/ cfg = "" THEN env ELSE cfg

\* `config?.apiKey ?? process.env.FLENSE_API_KEY` (543): only undefined and null
\* fall through to the environment.
ResolveApiKey(cfg, env) == IF cfg = Absent THEN env ELSE cfg

\* `!apiKey` (544): undefined and the empty string.
Missing(key) == key = Absent \/ key = ""

\* The constructor (542-551): what the `new` expression leaves the caller with.
Constructed(cfg, env) ==
    IF Missing(ResolveApiKey(cfg, env))
    THEN [state |-> "threw", error |-> "Missing API key", cfg |-> cfg, env |-> env]
    ELSE [state |-> "ok", apiKey |-> ResolveApiKey(cfg, env), cfg |-> cfg, env |-> env]

\* `new Flense(config)` in an environment.
Construct(cfg, env) ==
    /\ client = NoClient
    /\ client' = Constructed(cfg, env)
    /\ UNCHANGED <<handle, _options, jobIdPromise, _jobId, creations, esSupported>>
    /\ UNCHANGED <<trigVars, waitVars, subVars, srvState>>

\* --------------------------------------------------------------- ParseJob

\* The request createJob sends.  The body is serialised from `options` while
\* createJob runs, before its first await: parseUrl 623-647, parseFile 700-728.
CreateRequest(kind, options) ==
    [endpoint |-> IF kind = "url" THEN "/v1/queue/jobs" ELSE "/v1/queue/parse",
     method |-> "POST",
     auth |-> <<"Bearer", client.apiKey>>,
     options |-> [ocr |-> options.ocr, tables |-> options.tables,
                  images |-> options.images]]

\* One createJob invocation: its request, the network's answer and the state of
\* the promise `createJob(...).then(id => { this._jobId = id; return id })`.
NewCreation ==
    [request |-> CreateRequest(handle, _options),
     net |-> "inflight", id |-> Null, status |-> 0,
     state |-> "pending"]

\* getJobId without the memo: every trigger calls createJob.
GetJobIdNoMemo ==
    /\ creations' = Append(creations, NewCreation)
    /\ jobIdPromise' = Len(creations) + 1

\* getJobId that calls createJob again once the memoized promise has rejected.
GetJobIdRetry ==
    IF jobIdPromise = 0 \/ creations[jobIdPromise].state = "rejected"
    THEN /\ creations' = Append(creations, NewCreation)
         /\ jobIdPromise' = Len(creations) + 1
    ELSE UNCHANGED <<creations, jobIdPromise>>

\* ParseJob.getJobId: the memoized creation.
GetJobId ==
    IF jobIdPromise = 0
    THEN /\ creations' = Append(creations, NewCreation)
         /\ jobIdPromise' = Len(creations) + 1
    ELSE UNCHANGED <<creations, jobIdPromise>>

DefaultOptions == [ocr |-> FALSE, tables |-> FALSE, images |-> FALSE]

\* No handle, no trigger, no stream.
NothingYet ==
    /\ handle = "none"
    /\ _options = DefaultOptions
    /\ jobIdPromise = 0
    /\ _jobId = Null
    /\ creations = <<>>
    /\ tkind = [t \in Triggers |-> "none"]
    /\ tstate = [t \in Triggers |-> "none"]
    /\ tprom = [t \in Triggers |-> 0]
    /\ tobs = [t \in Triggers |-> NoValue]
    /\ jobIdArg = [t \in Triggers |-> Null]
    /\ result = [t \in Triggers |-> NoValue]
    /\ polls = [t \in Triggers |-> 0]
    /\ sleeps = [t \in Triggers |-> 0]
    /\ polled = [t \in Triggers |-> {}]
    /\ lastResp = [t \in Triggers |-> NoValue]
    /\ answered = [t \in Triggers |-> 0]
    /\ firstTerminal = [t \in Triggers |-> 0]
    /\ cancelled = [t \in Triggers |-> FALSE]
    /\ cancelledEarly = [t \in Triggers |-> FALSE]
    /\ unsubscribe = [t \in Triggers |-> "null"]
    /\ streams = [t \in Triggers |-> 0]
    /\ esState = [t \in Triggers |-> "none"]
    /\ cblog = [t \in Triggers |-> <<>>]
    /\ hook = NoHook
    /\ connected = [t \in Triggers |-> FALSE]
    /\ sent = [t \in Triggers |-> <<>>]
    /\ taken = [t \in Triggers |-> 0]
    /\ srvState = "created"

\* The same in a runtime that has EventSource.
ProgramInit ==
    /\ esSupported = TRUE
    /\ NothingYet

\* A client built with an explicit key; no handle yet.
Init ==
    /\ client = Constructed(ApiKey, Absent)
    /\ ProgramInit

\* parseUrl that calls createJob while it builds the handle.
ParseUrlEager ==
    /\ handle = "none"
    /\ handle' = "url"
    /\ _options' = DefaultOptions
    /\ creations' = Append(creations, [NewCreation EXCEPT
            !.request = CreateRequest("url", DefaultOptions)])
    /\ jobIdPromise' = Len(creations) + 1
    /\ UNCHANGED <<_jobId, esSupported, client>>
    /\ UNCHANGED <<trigVars, waitVars, subVars, srvState>>

\* Flense.parseUrl: builds the createJob closure and the handle, nothing else.
ParseUrl ==
    /\ handle = "none"
    /\ handle' = "url"
    /\ _options' = DefaultOptions
    /\ UNCHANGED <<jobIdPromise, _jobId, creations, esSupported, client>>
    /\ UNCHANGED <<trigVars, waitVars, subVars, srvState>>

\* Flense.parseFile: builds the createJob closure and the handle, nothing else.
ParseFile ==
    /\ handle = "none"
    /\ handle' = "file"
    /\ _options' = DefaultOptions
    /\ UNCHANGED <<jobIdPromise, _jobId, creations, esSupported, client>>
    /\ UNCHANGED <<trigVars, waitVars, subVars, srvState>>

\* withOCR when createJob serialises the options only after an await: the
\* request in flight follows the toggle.
WithOCRAliased(enabled) ==
    /\ handle # "none"
    /\ _options' = [_options EXCEPT !.ocr = enabled]
    /\ creations' = [i \in 1..Len(creations) |->
            IF creations[i].net = "inflight"
            THEN [creations[i] EXCEPT !.request.options.ocr = enabled]
            ELSE creations[i]]
    /\ UNCHANGED <<handle, jobIdPromise, _jobId, esSupported, client>>
    /\ UNCHANGED <<trigVars, waitVars, subVars, srvState>>

\* ParseJob.withOCR (342-345)
WithOCR(enabled) ==
    /\ handle # "none"
    /\ _options' = [_options EXCEPT !.ocr = enabled]
    /\ UNCHANGED <<handle, jobIdPromise, _jobId, creations, esSupported, client>>
    /\ UNCHANGED <<trigVars, waitVars, subVars, srvState>>

\* withTables that builds a fresh configuration holding its own toggle only.
WithTablesClearsOthers(enabled) ==
    /\ handle # "none"
    /\ _options' = [DefaultOptions EXCEPT !.tables = enabled]
    /\ UNCHANGED <<handle, jobIdPromise, _jobId, creations, esSupported, client>>
    /\ UNCHANGED <<trigVars, waitVars, subVars, srvState>>

\* ParseJob.withTables (362-365)
WithTables(enabled) ==
    /\ handle # "none"
    /\ _options' = [_options EXCEPT !.tables = enabled]
    /\ UNCHANGED <<handle, jobIdPromise, _jobId, creations, esSupported, client>>
    /\ UNCHANGED <<trigVars, waitVars, subVars, srvState>>

\* withImages that forgets the memoized creation, so that the next trigger
\* sends the new configuration.
WithImagesResets(enabled) ==
    /\ handle # "none"
    /\ _options' = [_options EXCEPT !.images = enabled]
    /\ jobIdPromise' = 0
    /\ UNCHANGED <<handle, _jobId, creations, esSupported, client>>
    /\ UNCHANGED <<trigVars, waitVars, subVars, srvState>>

\* ParseJob.withImages (382-385)
WithImages(enabled) ==
    /\ handle # "none"
    /\ _options' = [_options EXCEPT !.images = enabled]
    /\ UNCHANGED <<handle, jobIdPromise, _jobId, creations, esSupported, client>>
    /\ UNCHANGED <<trigVars, waitVars, subVars, srvState>>

\* get options(): a copy of _options.
OptionsGetter == [ocr |-> _options.ocr, tables |-> _options.tables,
                  images |-> _options.images]

\* get jobId()
JobIdGetter == _jobId

\* Getters that start the creation when they are read.
ReadGettersTriggers ==
    /\ handle # "none"
    /\ GetJobId
    /\ UNCHANGED <<handle, _options, _jobId, esSupported, client>>
    /\ UNCHANGED <<trigVars, waitVars, subVars, srvState>>

\* Reading the two getters: no field is written.
ReadGetters ==
    /\ handle # "none"
    /\ OptionsGetter \in [ocr : BOOLEAN, tables : BOOLEAN, images : BOOLEAN]
    /\ JobIdGetter \in JobIds \cup {Null}
    /\ UNCHANGED vars

\* ------------------------------------------------------------ job creation

\* The service answers a creation request (Flense.request, 577-587).
CreateRespond(i, net, id, status) ==
    /\ i \in 1..Len(creations)
    /\ creations[i].net = "inflight"
    /\ creations' = [creations EXCEPT ![i].net = net,
                                      ![i].id = IF net = "ok" THEN id ELSE Null,
                                      ![i].status = IF net = "http" THEN status ELSE 0]
    /\ UNCHANGED <<handle, _options, jobIdPromise, _jobId, esSupported, client>>
    /\ UNCHANGED <<trigVars, waitVars, subVars, srvState>>

\* The value or error a creation's promise settled with.
PromiseValue(i) ==
    IF creations[i].state = "fulfilled" THEN IdValue(creations[i].id)
    ELSE IF creations[i].state = "rejected"
         THEN RequestError(creations[i].net, creations[i].status)
         ELSE NoValue

\* createJob's promise settles and the callback of getJobId runs (396-399).
\* `this._jobId` is the field of the handle that made the creation: the model
\* keeps the fields of the latest handle only, whose creation is jobIdPromise.
JobIdSettle(i) ==
    /\ i \in 1..Len(creations)
    /\ creations[i].net # "inflight"
    /\ creations[i].state = "pending"
    /\ IF creations[i].net = "ok"
       THEN /\ _jobId' = IF i = jobIdPromise THEN creations[i].id ELSE _jobId
            /\ creations' = [creations EXCEPT ![i].state = "fulfilled"]
       ELSE /\ _jobId' = _jobId
            /\ creations' = [creations EXCEPT ![i].state = "rejected"]
    /\ UNCHANGED <<handle, _options, jobIdPromise, esSupported, client>>
    /\ UNCHANGED <<trigVars, waitVars, subVars, srvState>>

\* Triggers are numbered in the order the caller makes them.
FreeSlot(t) ==
    /\ handle # "none"
    /\ tkind[t] = "none"
    /\ \A u \in Triggers : u < t => tkind[u] # "none"

\* ------------------------------------------------------------------- then

\* ParseJob.then (412-421)
Then(t) ==
    /\ FreeSlot(t)
    /\ GetJobId
    /\ tkind' = [tkind EXCEPT ![t] = "then"]
    /\ tstate' = [tstate EXCEPT ![t] = "pending"]
    /\ tprom' = [tprom EXCEPT ![t] = jobIdPromise']
    /\ UNCHANGED <<handle, _options, _jobId, esSupported, client, tobs, jobIdArg, result>>
    /\ UNCHANGED <<waitVars, subVars, srvState>>

\* `.then((jobId) => ({ jobId })).then(onFulfilled, onRejected)` (419-420)
ThenSettle(t) ==
    /\ tkind[t] = "then"
    /\ tstate[t] = "pending"
    /\ creations[tprom[t]].state # "pending"
    /\ tobs' = [tobs EXCEPT ![t] = PromiseValue(tprom[t])]
    /\ IF creations[tprom[t]].state = "fulfilled"
       THEN /\ tstate' = [tstate EXCEPT ![t] = "fulfilled"]
            /\ result' = [result EXCEPT ![t] = [jobId |-> creations[tprom[t]].id]]
       ELSE /\ tstate' = [tstate EXCEPT ![t] = "rejected"]
            /\ result' = [result EXCEPT ![t] = PromiseValue(tprom[t])]
    /\ UNCHANGED <<tkind, tprom, jobIdArg>>
    /\ UNCHANGED <<handleVars, waitVars, subVars, srvState>>

\* ------------------------------------------------------- wait / waitForJob

\* JavaScript's `a || b` on optional strings: undefined and "" are both falsy.
OrElse(a, b) == IF a = Absent \/ a = "" THEN b ELSE a

\* The two fields taken in the other order.
ResultMarkdownContentFirst(markdown, content) == OrElse(OrElse(content, markdown), "")

\* `response.output?.markdown || response.output?.content || ""` (951)
ResultMarkdown(markdown, content) == OrElse(OrElse(markdown, content), "")

\* A loop that takes cancelled for a final state too.
LeavesLoopCancelled(state) == state \in {"completed", "failed", "cancelled"}

\* A loop that only tests for completed.
LeavesLoopOnlyCompleted(state) == state = "completed"

\* The loop's state test: only completed and failed leave the loop (948-960).
LeavesLoop(state) == state \in {"completed", "failed"}

\* A 2xx answer to a status request (QueueJobStatusResponse, 215-223).
StatusResponse(st, md, ct, er) ==
    [net |-> "ok", status |-> 200, state |-> st, markdown |-> md,
     content |-> ct, error |-> er]

\* A status request that fails: a non-2xx answer, or no answer.
FailedResponses ==
    { [net |-> "http", status |-> hs, body |-> b, state |-> Null,
       markdown |-> Absent, content |-> Absent, error |-> Absent] :
        hs \in HttpStatuses, b \in HttpBodies }
    \cup { [net |-> "network", status |-> 0, body |-> Absent, state |-> Null,
             markdown |-> Absent, content |-> Absent, error |-> Absent] }

\* What a status request may be answered with.  A field the loop never reads for
\* the state it comes with is left absent.
PollResponses ==
    { StatusResponse(st, Absent, Absent, Absent) : st \in JobState \ {"completed", "failed"} }
    \cup { StatusResponse("completed", md, ct, Absent) : md \in Markdowns, ct \in Contents }
    \cup { StatusResponse("failed", Absent, Absent, er) : er \in ErrorTexts }
    \cup FailedResponses

\* One answer of each kind the loop tells apart (active, completed, failed, a
\* failed request), for the runs that are about the handle.
PlainPollResponses ==
    { r \in PollResponses :
        /\ r.state \notin {"created", "cancelled", "archived"}
        /\ r.state = "completed" => r.markdown = "MD" /\ r.content = Absent
        /\ r.state = "failed" => r.error = "bad pdf"
        /\ r.net = "http" => r.body = "job not found" }

\* The status request of a poll (944-946), sent through Flense.request, which
\* sets the Authorization header (571-574).
StatusRequest(jobId) ==
    [endpoint |-> <<"/v1/queue/jobs/", jobId>>,
     method |-> "GET",
     auth |-> <<"Bearer", client.apiKey>>]

\* `await this.request(`/v1/queue/jobs/${jobId}`)` (944-946): the request goes out.
IssuePoll(t, jobId) ==
    /\ polls' = [polls EXCEPT ![t] = @ + 1]
    /\ polled' = [polled EXCEPT ![t] = @ \cup {jobId}]
    /\ jobIdArg' = [jobIdArg EXCEPT ![t] = jobId]
    /\ tstate' = [tstate EXCEPT ![t] = "polling"]

\* wait() that starts the loop at once, with whatever _jobId holds.
WaitEager(t) ==
    /\ FreeSlot(t)
    /\ GetJobId
    /\ tkind' = [tkind EXCEPT ![t] = "wait"]
    /\ tprom' = [tprom EXCEPT ![t] = jobIdPromise']
    /\ IssuePoll(t, _jobId)
    /\ UNCHANGED <<handle, _options, _jobId, esSupported, client, tobs, result>>
    /\ UNCHANGED <<sleeps, lastResp, answered, firstTerminal, subVars, srvState>>

\* ParseJob.wait (438-440)
Wait(t) ==
    /\ FreeSlot(t)
    /\ GetJobId
    /\ tkind' = [tkind EXCEPT ![t] = "wait"]
    /\ tstate' = [tstate EXCEPT ![t] = "awaitId"]
    /\ tprom' = [tprom EXCEPT ![t] = jobIdPromise']
    /\ UNCHANGED <<handle, _options, _jobId, esSupported, client, tobs, jobIdArg, result>>
    /\ UNCHANGED <<waitVars, subVars, srvState>>

\* `.then((jobId) => this.client.waitForJob(jobId))` (439): the first pass of the
\* loop runs up to its first await; a rejected creation rejects wait() as it is.
WaitContinue(t) ==
    /\ tkind[t] = "wait"
    /\ tstate[t] = "awaitId"
    /\ creations[tprom[t]].state # "pending"
    /\ tobs' = [tobs EXCEPT ![t] = PromiseValue(tprom[t])]
    /\ IF creations[tprom[t]].state = "fulfilled"
       THEN /\ IssuePoll(t, creations[tprom[t]].id)
            /\ UNCHANGED result
       ELSE /\ tstate' = [tstate EXCEPT ![t] = "rejected"]
            /\ result' = [result EXCEPT ![t] = PromiseValue(tprom[t])]
            /\ UNCHANGED <<polls, polled, jobIdArg>>
    /\ UNCHANGED <<tkind, tprom, sleeps, lastResp, answered, firstTerminal>>
    /\ UNCHANGED <<handleVars, subVars, srvState>>

\* One response arrives and the loop body runs to its next await (943-963).
\* The loop itself counts nothing: the runs stop following it at its MaxPolls-th
\* request, where only an answer that ends it is taken.
PollRespond(t, r) ==
    /\ tstate[t] = "polling"
    /\ (r.net = "ok" /\ ~LeavesLoop(r.state)) => polls[t] < MaxPolls
    /\ lastResp' = [lastResp EXCEPT ![t] = r]
    /\ answered' = [answered EXCEPT ![t] = @ + 1]
    /\ firstTerminal' = [firstTerminal EXCEPT ![t] =
            IF @ = 0 /\ r.net = "ok" /\ r.state \in {"completed", "failed"}
            THEN answered[t] + 1 ELSE @]
    /\ IF r.net # "ok"
       THEN /\ tstate' = [tstate EXCEPT ![t] = "rejected"]
            /\ result' = [result EXCEPT ![t] = StatusRequestError(r)]
            /\ UNCHANGED sleeps
       ELSE IF ~LeavesLoop(r.state)
       THEN /\ tstate' = [tstate EXCEPT ![t] = "sleeping"]
            /\ sleeps' = [sleeps EXCEPT ![t] = @ + 1]
            /\ UNCHANGED result
       ELSE IF r.state = "completed"
       THEN /\ tstate' = [tstate EXCEPT ![t] = "resolved"]
            /\ result' = [result EXCEPT ![t] =
                   [success |-> TRUE,
                    markdown |-> ResultMarkdown(r.markdown, r.content),
                    state |-> r.state]]
            /\ UNCHANGED sleeps
       ELSE /\ tstate' = [tstate EXCEPT ![t] = "rejected"]
            /\ result' = [result EXCEPT ![t] = JobFailedError(jobIdArg[t], r.error)]
            /\ UNCHANGED sleeps
    /\ UNCHANGED <<tkind, tprom, tobs, jobIdArg, polls, polled>>
    /\ UNCHANGED <<handleVars, subVars, srvState>>

\* The setTimeout of pollInterval fires (962) and the loop requests again.
SleepDone(t) ==
    /\ tstate[t] = "sleeping"
    /\ IssuePoll(t, jobIdArg[t])
    /\ UNCHANGED <<tkind, tprom, tobs, result, sleeps, lastResp, answered, firstTerminal>>
    /\ UNCHANGED <<handleVars, subVars, srvState>>

\* The service moves the job; the client has no part in it.
ServerStep(st) ==
    /\ \E i \in 1..Len(creations) : creations[i].net = "ok"
    /\ st # srvState
    /\ srvState' = st
    /\ UNCHANGED <<handleVars, trigVars, waitVars, subVars>>

\* ------------------------------------------------- the callbacks' receiver

\* The state of a useParseJob instance after a reset (98-104, 125-132):
\* unsubscribeRef.current is the subscription it holds, 0 for null.
FreshHook(sub) ==
    [mounted |-> TRUE, status |-> Unset, progress |-> Unset,
     contentChunks |-> <<>>, error |-> Unset, unsubscribeRef |-> sub]

\* `new Error(s.error || "Job failed")` (part_001 163)
FailedError(s) ==
    IF "error" \in DOMAIN s /\ s.error \notin {Absent, ""} THEN s.error ELSE "Job failed"

\* Callbacks whose onFailed mirrors the status only.
HookCallbackStatusOnly(h, c) ==
    CASE c.cb = "onStatus" -> [h EXCEPT !.status = Value(c.arg)]
      [] c.cb = "onProgress" -> [h EXCEPT !.progress = Value(c.arg)]
      [] c.cb = "onContent" -> [h EXCEPT !.contentChunks = Append(@, c.arg)]
      [] c.cb = "onComplete" -> [h EXCEPT !.status = Value(c.arg)]
      [] c.cb = "onFailed" -> [h EXCEPT !.status = Value(c.arg)]
      [] c.cb = "onError" -> [h EXCEPT !.error = Value(c.arg)]

\* The callbacks useParseJob passes to job.subscribe (part_001 145-170): what
\* one call does to the hook's state.
HookCallback(h, c) ==
    CASE c.cb = "onStatus" -> [h EXCEPT !.status = Value(c.arg)]
      [] c.cb = "onProgress" -> [h EXCEPT !.progress = Value(c.arg)]
      [] c.cb = "onContent" -> [h EXCEPT !.contentChunks = Append(@, c.arg)]
      [] c.cb = "onComplete" -> [h EXCEPT !.status = Value(c.arg)]
      [] c.cb = "onFailed" -> [h EXCEPT !.status = Value(c.arg),
                                        !.error = Value(FailedError(c.arg))]
      [] c.cb = "onError" -> [h EXCEPT !.error = Value(c.arg)]

\* The hook's state after a sequence of calls.
RECURSIVE HookCallbacks(_, _)
HookCallbacks(h, calls) ==
    IF calls = <<>> THEN h
    ELSE HookCallbacks(HookCallback(h, Head(calls)), Tail(calls))

\* The calls the step appended to the log of t reach their receiver: the
\* hook's callbacks when a hook made the subscription, whichever subscription
\* of the hook it is.
Mirrored(t) ==
    hook' = IF hook.mounted
            THEN HookCallbacks(hook, SubSeq(cblog'[t], Len(cblog[t]) + 1, Len(cblog'[t])))
            ELSE hook

\* -------------------------------------------------------------- subscribe

\* The request `new EventSource(sseUrl)` sends (826, 838): the URL is the base
\* URL and the path only, and the constructor is given no second argument, so
\* the request carries no Authorization header.
StreamRequest(jobId) ==
    [endpoint |-> <<"/v1/queue/jobs/", jobId, "/subscribe">>,
     method |-> "GET",
     auth |-> <<>>]

\* ParseJob.subscribe (477-485): the closure variables and the continuation.
Subscribe(t) ==
    /\ FreeSlot(t)
    /\ GetJobId
    /\ tkind' = [tkind EXCEPT ![t] = "subscribe"]
    /\ tstate' = [tstate EXCEPT ![t] = "awaitId"]
    /\ tprom' = [tprom EXCEPT ![t] = jobIdPromise']
    /\ cancelled' = [cancelled EXCEPT ![t] = FALSE]
    /\ unsubscribe' = [unsubscribe EXCEPT ![t] = "null"]
    /\ UNCHANGED <<handle, _options, _jobId, esSupported, client, tobs, jobIdArg, result>>
    /\ UNCHANGED <<waitVars, cancelledEarly, streams, esState, cblog, hook, streamVars, srvState>>

\* One callback invocation: the callback, the number of the stream event whose
\* listener made it (0 when no event did) and the argument.
Call(cb, ev, arg) == [cb |-> cb, ev |-> ev, arg |-> arg]

\* subscribeToJob without the check for EventSource support.
SubscribeToJobUnchecked(t) ==
    /\ streams' = [streams EXCEPT ![t] = @ + 1]
    /\ esState' = [esState EXCEPT ![t] = "open"]
    /\ unsubscribe' = [unsubscribe EXCEPT ![t] = "close"]
    /\ tstate' = [tstate EXCEPT ![t] = "subscribed"]
    /\ UNCHANGED <<cblog, hook>>

\* Flense.subscribeToJob up to its return (822-838, 919-921).  esState "open"
\* stands for an EventSource that was constructed and not closed, whether it is
\* still connecting or connected.
SubscribeToJob(t) ==
    IF ~esSupported
    THEN /\ cblog' = [cblog EXCEPT ![t] =
                Append(@, Call("onError", 0, "EventSource not supported"))]
         /\ Mirrored(t)
         /\ unsubscribe' = [unsubscribe EXCEPT ![t] = "noop"]
         /\ tstate' = [tstate EXCEPT ![t] = "unsupported"]
         /\ UNCHANGED <<streams, esState>>
    ELSE /\ streams' = [streams EXCEPT ![t] = @ + 1]
         /\ esState' = [esState EXCEPT ![t] = "open"]
         /\ unsubscribe' = [unsubscribe EXCEPT ![t] = "close"]
         /\ tstate' = [tstate EXCEPT ![t] = "subscribed"]
         /\ UNCHANGED <<cblog, hook>>

\* The continuation without its `if (cancelled) return`.
SubscribeContinueNoCheck(t) ==
    /\ tkind[t] = "subscribe"
    /\ tstate[t] = "awaitId"
    /\ creations[tprom[t]].state # "pending"
    /\ tobs' = [tobs EXCEPT ![t] = PromiseValue(tprom[t])]
    /\ IF creations[tprom[t]].state = "rejected"
       THEN /\ tstate' = [tstate EXCEPT ![t] = "unhandled"]
            /\ UNCHANGED <<unsubscribe, streams, esState, cblog, hook>>
       ELSE SubscribeToJob(t)
    /\ UNCHANGED <<tkind, tprom, jobIdArg, result, cancelled, cancelledEarly>>
    /\ UNCHANGED <<handleVars, waitVars, streamVars, srvState>>

\* The continuation of subscribe (481-484).  It has no rejection handler: a
\* rejected creation ends the chain as an unhandled rejection.
SubscribeContinue(t) ==
    /\ tkind[t] = "subscribe"
    /\ tstate[t] = "awaitId"
    /\ creations[tprom[t]].state # "pending"
    /\ tobs' = [tobs EXCEPT ![t] = PromiseValue(tprom[t])]
    /\ IF creations[tprom[t]].state = "rejected"
       THEN /\ tstate' = [tstate EXCEPT ![t] = "unhandled"]
            /\ UNCHANGED <<unsubscribe, streams, esState, cblog, hook>>
       ELSE IF cancelled[t]
       THEN /\ tstate' = [tstate EXCEPT ![t] = "skipped"]
            /\ UNCHANGED <<unsubscribe, streams, esState, cblog, hook>>
       ELSE SubscribeToJob(t)
    /\ UNCHANGED <<tkind, tprom, jobIdArg, result, cancelled, cancelledEarly>>
    /\ UNCHANGED <<handleVars, waitVars, streamVars, srvState>>

\* A cancellation function that also cancels the job at the service.
CancelCancelsJob(t) ==
    /\ tkind[t] = "subscribe"
    /\ cancelled' = [cancelled EXCEPT ![t] = TRUE]
    /\ cancelledEarly' = [cancelledEarly EXCEPT ![t] =
            @ \/ creations[tprom[t]].state = "pending"]
    /\ esState' = IF unsubscribe[t] = "close"
                  THEN [esState EXCEPT ![t] = "closed"]
                  ELSE esState
    /\ srvState' = IF unsubscribe[t] = "close" THEN "cancelled" ELSE srvState
    /\ UNCHANGED <<unsubscribe, streams, cblog, hook, streamVars>>
    /\ UNCHANGED <<handleVars, trigVars, waitVars>>

\* A cancellation function that closes every stream of the handle.
CancelClosesAll(t) ==
    /\ tkind[t] = "subscribe"
    /\ cancelled' = [cancelled EXCEPT ![t] = TRUE]
    /\ cancelledEarly' = [cancelledEarly EXCEPT ![t] =
            @ \/ creations[tprom[t]].state = "pending"]
    /\ esState' = [u \in Triggers |->
            IF unsubscribe[t] = "close" /\ unsubscribe[u] = "close"
            THEN "closed" ELSE esState[u]]
    /\ UNCHANGED <<unsubscribe, streams, cblog, hook, streamVars>>
    /\ UNCHANGED <<handleVars, trigVars, waitVars, srvState>>

\* A cancellation function that only sets the flag.
CancelFlagOnly(t) ==
    /\ tkind[t] = "subscribe"
    /\ cancelled' = [cancelled EXCEPT ![t] = TRUE]
    /\ cancelledEarly' = [cancelledEarly EXCEPT ![t] =
            @ \/ creations[tprom[t]].state = "pending"]
    /\ UNCHANGED <<unsubscribe, streams, esState, cblog, hook, streamVars>>
    /\ UNCHANGED <<handleVars, trigVars, waitVars, srvState>>

\* The function subscribe returned (486-489): `cancelled = true; unsubscribe?.()`.
Cancel(t) ==
    /\ tkind[t] = "subscribe"
    /\ cancelled' = [cancelled EXCEPT ![t] = TRUE]
    /\ cancelledEarly' = [cancelledEarly EXCEPT ![t] =
            @ \/ creations[tprom[t]].state = "pending"]
    /\ esState' = IF unsubscribe[t] = "close"
                  THEN [esState EXCEPT ![t] = "closed"]
                  ELSE esState
    /\ UNCHANGED <<unsubscribe, streams, cblog, hook, streamVars>>
    /\ UNCHANGED <<handleVars, trigVars, waitVars, srvState>>

\* ------------------------------------------- the event stream's listeners

\* The states a status snapshot on the stream carries.
StreamStates == {"active", "completed", "failed", "cancelled"}

\* event.data: text JSON.parse rejects, or the JSON of an object of the event's
\* payload type (JobStatus 96-125, ProgressUpdate 130-143, ContentChunk 148-153).
Garbage == [json |-> FALSE]
StatusPayloads == { [json |-> TRUE, state |-> st] : st \in StreamStates }
ProgressPayloads == { [json |-> TRUE, progress |-> 42, stage |-> "ocr"] }
ContentPayloads == { [json |-> TRUE, page |-> 2, content |-> "B"],
                     [json |-> TRUE, page |-> 1, content |-> "A"] }

\* The event names the adapter listens to (849-912).
StatusEventTypes == {"status", "complete", "failed", "cancelled"}
Event(type, data) == [type |-> type, data |-> data]
StreamEvents ==
    { Event(ty, d) : ty \in StatusEventTypes, d \in StatusPayloads \cup {Garbage} }
    \cup { Event("progress", d) : d \in ProgressPayloads \cup {Garbage} }
    \cup { Event("content", d) : d \in ContentPayloads \cup {Garbage} }
    \cup { Event("timeout", Garbage) }

\* handleStatus without its failed branch.
HandleStatusNoFailed(n, data) ==
    <<Call("onStatus", n, data)>>
    \o (IF data.state = "completed" THEN <<Call("onComplete", n, data)>> ELSE <<>>)

\* handleStatus (840-847): the callbacks it makes for one status snapshot.
HandleStatus(n, data) ==
    <<Call("onStatus", n, data)>>
    \o (IF data.state = "completed" THEN <<Call("onComplete", n, data)>>
        ELSE IF data.state = "failed" THEN <<Call("onFailed", n, data)>>
        ELSE <<>>)

\* The catch branch of a listener: `Failed to parse ${type} event: ${e}`.
ParseFailure(n, type) == <<Call("onError", n, <<"Failed to parse", type, "event">>)>>

\* A stream that keeps dispatching to its listeners after close().
DeliverableAfterClose(t) == connected[t]

\* An EventSource dispatches to its listeners while it is connected and was not
\* closed; close() (882, 892, 902, 911, 916, 920) ends that for good.
Deliverable(t) == esState[t] = "open" /\ connected[t]

\* The next event of the stream, and its number.
NextEvent(t) == sent[t][taken[t] + 1]
Arrives(t, type) ==
    /\ Deliverable(t)
    /\ taken[t] < Len(sent[t])
    /\ NextEvent(t).type = type

\* A listener ran: it took the event and made these calls.
Dispatched(t, calls) ==
    /\ taken' = [taken EXCEPT ![t] = @ + 1]
    /\ cblog' = [cblog EXCEPT ![t] = @ \o calls]
    /\ Mirrored(t)
    /\ UNCHANGED <<connected, sent, cancelled, cancelledEarly, unsubscribe, streams>>
    /\ UNCHANGED <<handleVars, trigVars, waitVars, srvState>>

\* eventSource.close()
Close(t) == esState' = [esState EXCEPT ![t] = "closed"]

\* The connection is established (readyState OPEN).
EsOpen(t) ==
    /\ esState[t] = "open"
    /\ ~connected[t]
    /\ connected' = [connected EXCEPT ![t] = TRUE]
    /\ UNCHANGED <<sent, taken, cancelled, cancelledEarly, unsubscribe, streams,
                   esState, cblog, hook>>
    /\ UNCHANGED <<handleVars, trigVars, waitVars, srvState>>

\* The service transmits one more event on an established stream.
ServerSend(t, e) ==
    /\ esState[t] = "open"
    /\ connected[t]
    /\ sent' = [sent EXCEPT ![t] = Append(@, e)]
    /\ UNCHANGED <<connected, taken, cancelled, cancelledEarly, unsubscribe, streams,
                   esState, cblog, hook>>
    /\ UNCHANGED <<handleVars, trigVars, waitVars, srvState>>

\* The "status" listener (849-856).
StatusListener(t) ==
    /\ Arrives(t, "status")
    /\ Dispatched(t, IF NextEvent(t).data.json
                     THEN HandleStatus(taken[t] + 1, NextEvent(t).data)
                     ELSE ParseFailure(taken[t] + 1, "status"))
    /\ UNCHANGED esState

\* A "progress" listener that closes the stream when it cannot parse.
ProgressListenerClosesOnFailure(t) ==
    /\ Arrives(t, "progress")
    /\ IF NextEvent(t).data.json
       THEN /\ Dispatched(t, <<Call("onProgress", taken[t] + 1, NextEvent(t).data)>>)
            /\ UNCHANGED esState
       ELSE /\ Dispatched(t, ParseFailure(taken[t] + 1, "progress"))
            /\ Close(t)

\* The "progress" listener (858-867).
ProgressListener(t) ==
    /\ Arrives(t, "progress")
    /\ Dispatched(t, IF NextEvent(t).data.json
                     THEN <<Call("onProgress", taken[t] + 1, NextEvent(t).data)>>
                     ELSE ParseFailure(taken[t] + 1, "progress"))
    /\ UNCHANGED esState

\* The call put before the first onContent call of a later page.
InsertByPage(log, c) ==
    LET later == { i \in 1..Len(log) :
                     log[i].cb = "onContent" /\ log[i].arg.page > c.arg.page }
    IN  IF later = {} THEN Append(log, c)
        ELSE LET i == CHOOSE i \in later : \A j \in later : i <= j
             IN  SubSeq(log, 1, i - 1) \o <<c>> \o SubSeq(log, i, Len(log))

\* A "content" listener that hands the chunks over in page order.
ContentListenerByPage(t) ==
    /\ Arrives(t, "content")
    /\ taken' = [taken EXCEPT ![t] = @ + 1]
    /\ cblog' = [cblog EXCEPT ![t] =
            IF NextEvent(t).data.json
            THEN InsertByPage(@, Call("onContent", taken[t] + 1, NextEvent(t).data))
            ELSE @ \o ParseFailure(taken[t] + 1, "content")]
    /\ UNCHANGED hook
    /\ UNCHANGED <<connected, sent, cancelled, cancelledEarly, unsubscribe, streams, esState>>
    /\ UNCHANGED <<handleVars, trigVars, waitVars, srvState>>

\* The "content" listener (869-876).
ContentListener(t) ==
    /\ Arrives(t, "content")
    /\ Dispatched(t, IF NextEvent(t).data.json
                     THEN <<Call("onContent", taken[t] + 1, NextEvent(t).data)>>
                     ELSE ParseFailure(taken[t] + 1, "content"))
    /\ UNCHANGED esState

\* A terminal listener that leaves the stream open.
TerminalListenerStaysOpen(t, type) ==
    /\ Arrives(t, type)
    /\ Dispatched(t, IF NextEvent(t).data.json
                     THEN HandleStatus(taken[t] + 1, NextEvent(t).data)
                     ELSE ParseFailure(taken[t] + 1, type))
    /\ UNCHANGED esState

\* The "complete", "failed" and "cancelled" listeners are the same code but for
\* the event name: handleStatus and close() inside the try, so that a payload
\* that does not parse skips the close() (878-908).
TerminalListener(t, type) ==
    /\ Arrives(t, type)
    /\ IF NextEvent(t).data.json
       THEN /\ Dispatched(t, HandleStatus(taken[t] + 1, NextEvent(t).data))
            /\ Close(t)
       ELSE /\ Dispatched(t, ParseFailure(taken[t] + 1, type))
            /\ UNCHANGED esState

\* A "complete" listener that calls the complete callback itself after
\* handleStatus.
CompleteListenerCallsItself(t) ==
    /\ Arrives(t, "complete")
    /\ IF NextEvent(t).data.json
       THEN /\ Dispatched(t, HandleStatus(taken[t] + 1, NextEvent(t).data)
                    \o <<Call("onComplete", taken[t] + 1, NextEvent(t).data)>>)
            /\ Close(t)
       ELSE /\ Dispatched(t, ParseFailure(taken[t] + 1, "complete"))
            /\ UNCHANGED esState

\* The "complete" listener (878-886).
CompleteListener(t) == TerminalListener(t, "complete")

\* The "failed" listener (888-896).
FailedListener(t) == TerminalListener(t, "failed")

\* A "cancelled" listener that closes without calling anything.
CancelledListenerSilent(t) ==
    /\ Arrives(t, "cancelled")
    /\ Dispatched(t, <<>>)
    /\ Close(t)

\* The "cancelled" listener (898-908).
CancelledListener(t) == TerminalListener(t, "cancelled")

\* A "timeout" listener that reports the timeout as an error.
TimeoutListenerReports(t) ==
    /\ Arrives(t, "timeout")
    /\ Dispatched(t, <<Call("onError", taken[t] + 1, "SSE timeout")>>)
    /\ Close(t)

\* The "timeout" listener (910-912).
TimeoutListener(t) ==
    /\ Arrives(t, "timeout")
    /\ Dispatched(t, <<>>)
    /\ Close(t)

\* An onerror that reports and lets the EventSource reconnect.
OnErrorStaysOpen(t) ==
    /\ esState[t] = "open"
    /\ cblog' = [cblog EXCEPT ![t] = Append(@, Call("onError", 0, "SSE connection error"))]
    /\ Mirrored(t)
    /\ connected' = [connected EXCEPT ![t] = FALSE]
    /\ UNCHANGED <<sent, taken, cancelled, cancelledEarly, unsubscribe, streams, esState>>
    /\ UNCHANGED <<handleVars, trigVars, waitVars, srvState>>

\* eventSource.onerror (914-917): the connection failed, while connecting or
\* while open.
OnError(t) ==
    /\ esState[t] = "open"
    /\ cblog' = [cblog EXCEPT ![t] = Append(@, Call("onError", 0, "SSE connection error"))]
    /\ Mirrored(t)
    /\ Close(t)
    /\ UNCHANGED <<connected, sent, taken, cancelled, cancelledEarly, unsubscribe, streams>>
    /\ UNCHANGED <<handleVars, trigVars, waitVars, srvState>>

\* ------------------------------------------------ useParseJob (part_001)

\* The first render of a component that calls useParseJob (part_001 93-108).
UseParseJob ==
    /\ hook = NoHook
    /\ handle = "none"
    /\ hook' = FreshHook(0)
    /\ UNCHANGED <<cancelled, cancelledEarly, unsubscribe, streams, esState, cblog,
                   streamVars>>
    /\ UNCHANGED <<handleVars, trigVars, waitVars, srvState>>

\* `unsubscribeRef.current?.()` (part_001 126, 143): the cancellation function of
\* the subscription the hook holds (486-489), nothing when it holds none.
HookUnsubscribe(prev) ==
    /\ cancelled' = [u \in Triggers |-> cancelled[u] \/ u = prev]
    /\ cancelledEarly' = [u \in Triggers |->
            cancelledEarly[u] \/ (u = prev /\ creations[tprom[u]].state = "pending")]
    /\ esState' = [u \in Triggers |->
            IF u = prev /\ unsubscribe[u] = "close" THEN "closed" ELSE esState[u]]

\* A start of a job that leaves the previous subscription alone.
HookStartKeepsPrevious(kind, t) ==
    /\ hook.mounted
    /\ client.state = "ok"
    /\ tkind[t] = "none"
    /\ \A u \in Triggers : u < t => tkind[u] # "none"
    /\ handle' = kind
    /\ _options' = DefaultOptions
    /\ _jobId' = Null
    /\ creations' = Append(creations,
            [NewCreation EXCEPT !.request = CreateRequest(kind, DefaultOptions)])
    /\ jobIdPromise' = Len(creations) + 1
    /\ tkind' = [tkind EXCEPT ![t] = "subscribe"]
    /\ tstate' = [tstate EXCEPT ![t] = "awaitId"]
    /\ tprom' = [tprom EXCEPT ![t] = Len(creations) + 1]
    /\ hook' = FreshHook(t)
    /\ UNCHANGED <<cancelled, cancelledEarly, esState>>
    /\ UNCHANGED <<esSupported, client, tobs, jobIdArg, result, waitVars>>
    /\ UNCHANGED <<unsubscribe, streams, cblog, streamVars, srvState>>

\* parseUrl / parseFile of the hook, called without options (part_001 175-215),
\* with the hook's subscribeToJob (134-173), ParseJob.subscribe (477-490) and
\* getJobId (394-402) they run before returning: a new handle is built, the
\* state is cleared, the previous subscription is cancelled, and the new
\* subscription sends the creation request of the new handle.
HookStart(kind, t) ==
    /\ hook.mounted
    /\ client.state = "ok"
    /\ tkind[t] = "none"
    /\ \A u \in Triggers : u < t => tkind[u] # "none"
    /\ handle' = kind
    /\ _options' = DefaultOptions
    /\ _jobId' = Null
    /\ creations' = Append(creations,
            [NewCreation EXCEPT !.request = CreateRequest(kind, DefaultOptions)])
    /\ jobIdPromise' = Len(creations) + 1
    /\ tkind' = [tkind EXCEPT ![t] = "subscribe"]
    /\ tstate' = [tstate EXCEPT ![t] = "awaitId"]
    /\ tprom' = [tprom EXCEPT ![t] = Len(creations) + 1]
    /\ HookUnsubscribe(hook.unsubscribeRef)
    /\ hook' = FreshHook(t)
    /\ UNCHANGED <<esSupported, client, tobs, jobIdArg, result, waitVars>>
    /\ UNCHANGED <<unsubscribe, streams, cblog, streamVars, srvState>>

HookParseUrl(t) == HookStart("url", t)
HookParseFile(t) == HookStart("file", t)

\* reset (part_001 125-132)
HookReset ==
    /\ hook.mounted
    /\ HookUnsubscribe(hook.unsubscribeRef)
    /\ hook' = FreshHook(0)
    /\ UNCHANGED <<unsubscribe, streams, cblog, streamVars>>
    /\ UNCHANGED <<handleVars, trigVars, waitVars, srvState>>

\* A string that is truthy: present and not empty.
Truthy(rec, field) == field \in DOMAIN rec /\ rec[field] \notin {Absent, ""}

\* `status?.output?.content` and `status?.output?.markdown` (part_001 229-230)
OutputHas(h, field) ==
    /\ h.status.set
    /\ "output" \in DOMAIN h.status.value
    /\ Truthy(h.status.value.output, field)

\* Array.prototype.sort with (a, b) => a.page - b.page: stable, ascending.
RECURSIVE SortByPage(_)
SortByPage(chunks) ==
    IF chunks = <<>> THEN <<>>
    ELSE LET sorted == SortByPage(SubSeq(chunks, 1, Len(chunks) - 1))
             c == chunks[Len(chunks)]
             before == SelectSeq(sorted, LAMBDA x : x.page <= c.page)
             after == SelectSeq(sorted, LAMBDA x : x.page > c.page)
         IN  before \o <<c>> \o after

\* `.map((c) => c.content).join("\n\n")`: a text is the sequence of its pieces.
RECURSIVE JoinBlankLine(_)
JoinBlankLine(chunks) ==
    IF chunks = <<>> THEN <<>>
    ELSE IF Len(chunks) = 1 THEN <<chunks[1].content>>
    ELSE <<chunks[1].content, "\n\n">> \o JoinBlankLine(Tail(chunks))

\* A memo that joins the chunks in the order they arrived.
HookContentUnsorted(h) ==
    IF OutputHas(h, "content") THEN Value(<<h.status.value.output.content>>)
    ELSE IF OutputHas(h, "markdown") THEN Value(<<h.status.value.output.markdown>>)
    ELSE IF Len(h.contentChunks) > 0 THEN Value(JoinBlankLine(h.contentChunks))
    ELSE Unset

\* The value of the `content` memo (part_001 227-239).
HookContent(h) ==
    IF OutputHas(h, "content") THEN Value(<<h.status.value.output.content>>)
    ELSE IF OutputHas(h, "markdown") THEN Value(<<h.status.value.output.markdown>>)
    ELSE IF Len(h.contentChunks) > 0 THEN Value(JoinBlankLine(SortByPage(h.contentChunks)))
    ELSE Unset

\* A render of the component: the `content` memo is computed, and when it gets
\* to the chunks, `contentChunks.sort(...)` sorts the array that is the hook's
\* state in place (part_001 232-234).
Render ==
    /\ hook.mounted
    /\ hook' = IF OutputHas(hook, "content") \/ OutputHas(hook, "markdown")
               THEN hook
               ELSE [hook EXCEPT !.contentChunks = SortByPage(@)]
    /\ UNCHANGED <<cancelled, cancelledEarly, unsubscribe, streams, esState, cblog,
                   streamVars>>
    /\ UNCHANGED <<handleVars, trigVars, waitVars, srvState>>

\* ------------------------------------------------------------ the program

\* A caller that builds one handle and consumes it, leaving its options alone.
Next ==
    \/ ParseUrl
    \/ ParseFile
    \/ ReadGetters
    \/ \E t \in Triggers : Then(t)
    \/ \E t \in Triggers : Wait(t)
    \/ \E t \in Triggers : Subscribe(t)
    \/ \E i \in 1..Len(creations), n \in Transport, id \in JobIds, hs \in HttpStatuses :
            CreateRespond(i, n, id, hs)
    \/ \E i \in 1..Len(creations) : JobIdSettle(i)
    \/ \E t \in Triggers : ThenSettle(t)
    \/ \E t \in Triggers : WaitContinue(t)
    \/ \E t \in Triggers, r \in PlainPollResponses : PollRespond(t, r)
    \/ \E t \in Triggers : SleepDone(t)
    \/ \E t \in Triggers : SubscribeContinue(t)
    \/ \E t \in Triggers : Cancel(t)

Spec == Init /\ [][Next]_vars

\* ------------------------------------------------ a caller that configures

\* The caller also sets the toggles, at any moment.  The runs end where the
\* creation request has been answered: status requests stay unanswered.
NextConfig ==
    \/ ParseUrl
    \/ ParseFile
    \/ \E b \in BOOLEAN : WithOCR(b)
    \/ \E b \in BOOLEAN : WithTables(b)
    \/ \E b \in BOOLEAN : WithImages(b)
    \/ ReadGetters
    \/ \E t \in Triggers : Then(t)
    \/ \E t \in Triggers : Wait(t)
    \/ \E t \in Triggers : Subscribe(t)
    \/ \E i \in 1..Len(creations), n \in Transport, id \in JobIds, hs \in HttpStatuses :
            CreateRespond(i, n, id, hs)
    \/ \E i \in 1..Len(creations) : JobIdSettle(i)
    \/ \E t \in Triggers : ThenSettle(t)
    \/ \E t \in Triggers : WaitContinue(t)
    \/ \E t \in Triggers : SubscribeContinue(t)
    \/ \E t \in Triggers : Cancel(t)

SpecConfig == Init /\ [][NextConfig]_vars

\* ----------------------------------------------- wait() against a live job

\* The service answers a status request with the job's state of that moment.
ServerAnswer(t, r) ==
    /\ r.net = "ok" => r.state = srvState
    /\ PollRespond(t, r)

\* The answers of a service whose every status request succeeds.
AnswerOk(t) ==
    \E r \in PollResponses : r.net = "ok" /\ ServerAnswer(t, r)

\* A caller that only calls wait(), and a service that moves the job.
NextPoll ==
    \/ ParseUrl
    \/ \E t \in Triggers : t <= MaxWaits /\ Wait(t)
    \/ \E i \in 1..Len(creations), n \in Transport, id \in JobIds, hs \in HttpStatuses :
            CreateRespond(i, n, id, hs)
    \/ \E i \in 1..Len(creations) : JobIdSettle(i)
    \/ \E t \in Triggers : WaitContinue(t)
    \/ \E t \in Triggers, r \in PollResponses : ServerAnswer(t, r)
    \/ \E t \in Triggers : SleepDone(t)
    \/ \E st \in JobState : ServerStep(st)

SpecPoll == Init /\ [][NextPoll]_vars

\* The event loop runs every continuation that is ready and every timer that is
\* due; a status request that succeeds is answered.
PollFairness ==
    /\ \A i \in 1..MaxTriggers : WF_vars(JobIdSettle(i))
    /\ \A t \in Triggers : WF_vars(WaitContinue(t))
    /\ \A t \in Triggers : WF_vars(AnswerOk(t))
    /\ \A t \in Triggers : WF_vars(SleepDone(t))

SpecPollFair == SpecPoll /\ PollFairness

\* ------------------------------------------------- a subscribed event stream

\* A caller that subscribes once and may cancel, the creation of the job, and
\* the connection of the stream.
SubscriberSteps ==
    \/ ParseUrl
    \/ Subscribe(1)
    \/ \E i \in 1..Len(creations), n \in Transport, hs \in HttpStatuses :
            CreateRespond(i, n, "job_a", hs)
    \/ \E i \in 1..Len(creations) : JobIdSettle(i)
    \/ \E t \in Triggers : SubscribeContinue(t)
    \/ \E t \in Triggers : Cancel(t)
    \/ \E t \in Triggers : EsOpen(t)
    \/ \E t \in Triggers : OnError(t)

\* A service that may transmit any event.
NextStream ==
    \/ SubscriberSteps
    \/ \E t \in Triggers, e \in StreamEvents :
            Len(sent[t]) < MaxEvents /\ ServerSend(t, e)
    \/ \E t \in Triggers : StatusListener(t)
    \/ \E t \in Triggers : ProgressListener(t)
    \/ \E t \in Triggers : ContentListener(t)
    \/ \E t \in Triggers : CompleteListener(t)
    \/ \E t \in Triggers : FailedListener(t)
    \/ \E t \in Triggers : CancelledListener(t)
    \/ \E t \in Triggers : TimeoutListener(t)

SpecStream == Init /\ [][NextStream]_vars

\* The event loop runs every continuation that is ready, the connection of a
\* stream that is not closed gets established, and an EventSource dispatches
\* every event it received while it is not closed.
StreamFairness ==
    /\ \A i \in 1..MaxTriggers : WF_vars(JobIdSettle(i))
    /\ \A t \in Triggers : WF_vars(SubscribeContinue(t))
    /\ \A t \in Triggers : WF_vars(EsOpen(t))
    /\ \A t \in Triggers : WF_vars(StatusListener(t))
    /\ \A t \in Triggers : WF_vars(ProgressListener(t))
    /\ \A t \in Triggers : WF_vars(ContentListener(t))
    /\ \A t \in Triggers : WF_vars(CompleteListener(t))
    /\ \A t \in Triggers : WF_vars(FailedListener(t))
    /\ \A t \in Triggers : WF_vars(CancelledListener(t))
    /\ \A t \in Triggers : WF_vars(TimeoutListener(t))

SpecStreamFair == SpecStream /\ StreamFairness

\* The events of a job that is parsed page by page and completes.
ChunkEvents ==
    { e \in StreamEvents :
        \/ e.type \in {"progress", "content"}
        \/ e.type \in {"status", "complete"} /\ e.data.json /\ e.data.state = "completed" }

\* A service that transmits such a job's events.
NextChunks ==
    \/ SubscriberSteps
    \/ \E t \in Triggers, e \in ChunkEvents :
            Len(sent[t]) < MaxChunks /\ ServerSend(t, e)
    \/ \E t \in Triggers : StatusListener(t)
    \/ \E t \in Triggers : ProgressListener(t)
    \/ \E t \in Triggers : ContentListener(t)
    \/ \E t \in Triggers : CompleteListener(t)

SpecChunks == Init /\ [][NextChunks]_vars

\* ------------------------------------------------ two streams of one handle

\* The events of a job that reports its progress and completes.
ProgressEvents ==
    { e \in StreamEvents :
        \/ e.type = "progress" /\ e.data.json
        \/ e.type = "complete" /\ e.data.json /\ e.data.state = "completed" }

\* A caller that subscribes twice to one handle; the service transmits on each
\* stream on its own.
NextTwoStreams ==
    \/ ParseUrl
    \/ Subscribe(1)
    \/ Subscribe(2)
    \/ \E i \in 1..Len(creations), n \in Transport, hs \in HttpStatuses :
            CreateRespond(i, n, "job_a", hs)
    \/ \E i \in 1..Len(creations) : JobIdSettle(i)
    \/ \E t \in Triggers : SubscribeContinue(t)
    \/ \E t \in Triggers : Cancel(t)
    \/ \E t \in Triggers : EsOpen(t)
    \/ \E t \in Triggers : OnError(t)
    \/ \E t \in Triggers, e \in ProgressEvents :
            Len(sent[t]) < MaxEvents /\ ServerSend(t, e)
    \/ \E t \in Triggers : ProgressListener(t)
    \/ \E t \in Triggers : CompleteListener(t)

SpecTwoStreams == Init /\ [][NextTwoStreams]_vars

\* ------------------------------------- a job that moves while it is watched

\* A caller that waits for the job and subscribes to it, and may cancel the
\* subscription; the service moves the job, answers the status requests with
\* its state and transmits events.
NextWatch ==
    \/ ParseUrl
    \/ Wait(1)
    \/ Subscribe(2)
    \/ \E i \in 1..Len(creations), n \in Transport, hs \in HttpStatuses :
            CreateRespond(i, n, "job_a", hs)
    \/ \E i \in 1..Len(creations) : JobIdSettle(i)
    \/ \E t \in Triggers : WaitContinue(t)
    \/ \E t \in Triggers, r \in PlainPollResponses : ServerAnswer(t, r)
    \/ \E t \in Triggers : SleepDone(t)
    \/ \E t \in Triggers : SubscribeContinue(t)
    \/ \E t \in Triggers : Cancel(t)
    \/ \E t \in Triggers : EsOpen(t)
    \/ \E t \in Triggers, e \in ProgressEvents :
            Len(sent[t]) < MaxEvents /\ ServerSend(t, e)
    \/ \E t \in Triggers : ProgressListener(t)
    \/ \E t \in Triggers : CompleteListener(t)
    \/ \E st \in JobState : ServerStep(st)

SpecWatch == Init /\ [][NextWatch]_vars

\* ------------------------------------------- a runtime with or without SSE

\* The runtime may lack EventSource (829).
InitRuntime ==
    /\ client = Constructed(ApiKey, Absent)
    /\ esSupported \in BOOLEAN
    /\ NothingYet

SpecRuntime == InitRuntime /\ [][NextStream]_vars

\* ------------------------------------------------- a component with the hook

\* The events of the jobs the component watches: two pages that complete out
\* of order, a snapshot saying failed, and the completion with its output.
HookEvents ==
    { Event("content", d) : d \in ContentPayloads }
    \cup { Event("status", [json |-> TRUE, state |-> "failed"]),
           Event("complete", [json |-> TRUE, state |-> "completed",
                              output |-> [content |-> "FULL", markdown |-> "MD"]]),
           Event("complete", [json |-> TRUE, state |-> "completed",
                              output |-> [content |-> "", markdown |-> "MD"]]) }

\* All events transmitted so far.
RECURSIVE SentUpTo(_)
SentUpTo(t) == IF t = 0 THEN 0 ELSE Len(sent[t]) + SentUpTo(t - 1)

\* A component that starts a job, starts another one or resets, and renders
\* at any moment.
NextHook ==
    \/ UseParseJob
    \/ HookParseUrl(1)
    \/ HookParseFile(2)
    \/ HookReset
    \/ Render
    \/ \E i \in 1..Len(creations), n \in Transport, id \in JobIds, hs \in HttpStatuses :
            CreateRespond(i, n, id, hs)
    \/ \E i \in 1..Len(creations) : JobIdSettle(i)
    \/ \E t \in Triggers : SubscribeContinue(t)
    \/ \E t \in Triggers : EsOpen(t)
    \/ \E t \in Triggers, e \in HookEvents :
            SentUpTo(MaxTriggers) < MaxEvents /\ ServerSend(t, e)
    \/ \E t \in Triggers : StatusListener(t)
    \/ \E t \in Triggers : ContentListener(t)
    \/ \E t \in Triggers : CompleteListener(t)

SpecHook == Init /\ [][NextHook]_vars

\* ------------------------------------------------- constructing the client

\* No client yet.
InitClient ==
    /\ client = NoClient
    /\ ProgramInit

\* A caller that constructs the client from some configuration and environment
\* and, when it got one, parses a document and consumes the handle.
NextClient ==
    \/ \E cfg \in ConfigKeys, env \in EnvKeys : Construct(cfg, env)
    \/ client.state = "ok" /\ ParseUrl
    \/ client.state = "ok" /\ ParseFile
    \/ \E t \in Triggers : Then(t)
    \/ \E t \in Triggers : Wait(t)
    \/ \E i \in 1..Len(creations), n \in Transport, id \in JobIds, hs \in HttpStatuses :
            CreateRespond(i, n, id, hs)
    \/ \E i \in 1..Len(creations) : JobIdSettle(i)
    \/ \E t \in Triggers : ThenSettle(t)
    \/ \E t \in Triggers : WaitContinue(t)

SpecClient == InitClient /\ [][NextClient]_vars

\* ================================================================== claims

Called(t) == tkind[t] # "none"
Settled(t) == tstate[t] \in {"resolved", "rejected"}

\* C1: however many triggers (then, wait, subscribe) are made on one handle and
\* however they interleave, createJob is invoked exactly once, all triggers hold
\* the one memoized promise, and all of them receive the same job identifier.
C1_CreatedExactlyOnce ==
    /\ Len(creations) <= 1
    /\ \A t \in Triggers : Called(t) =>
            /\ Len(creations) = 1
            /\ jobIdPromise = 1
            /\ tprom[t] = 1
    /\ \A t \in Triggers : tobs[t].kind = "id" =>
            /\ creations[1].net = "ok"
            /\ tobs[t].id = creations[1].id
            /\ tkind[t] = "then" => result[t] = [jobId |-> creations[1].id]
    /\ \A t, u \in Triggers :
            (tobs[t].kind = "id" /\ tobs[u].kind = "id") => tobs[t].id = tobs[u].id

\* Two triggers of different kinds have both received the identifier.
C1_Witness ==
    \E t, u \in Triggers :
        /\ tkind[t] = "wait" /\ tkind[u] = "subscribe"
        /\ tobs[t] = IdValue("job_b") /\ tobs[u] = IdValue("job_b")

\* C2: creation is lazy.  Building the handle, configuring it and reading its
\* getters issue no request: the list of creation requests is empty as long as no
\* trigger was made, and it only ever grows in a step that makes the first
\* then(), wait() or subscribe().
C2_CreationIsLazy ==
    /\ []((\A t \in Triggers : ~Called(t)) => creations = <<>> /\ jobIdPromise = 0)
    /\ [][creations' # creations /\ Len(creations') # Len(creations) =>
            /\ creations = <<>>
            /\ Len(creations') = 1
            /\ \A t \in Triggers : ~Called(t)
            /\ \E t \in Triggers : tkind'[t] \in {"then", "wait", "subscribe"}]_vars

\* The handle exists and was configured, and nothing was requested.
C2_Witness ==
    /\ handle = "file"
    /\ _options = [ocr |-> TRUE, tables |-> TRUE, images |-> TRUE]
    /\ \A t \in Triggers : ~Called(t)
    /\ creations = <<>>

\* C3: the options of the creation request are the handle's configuration at the
\* moment of the first trigger, and no later step (a configuration call while the
\* request is in flight or after it) changes the request that was sent.
C3_PayloadFrozenAtFirstTrigger ==
    [][/\ (creations = <<>> /\ creations' # <<>>) =>
            /\ creations'[1].request.options = _options
            /\ creations'[1].request.endpoint =
                   (IF handle = "url" THEN "/v1/queue/jobs" ELSE "/v1/queue/parse")
       /\ creations # <<>> =>
            /\ creations' # <<>>
            /\ creations'[1].request = creations[1].request]_vars

\* A request in flight carries the configuration made before the trigger while
\* the handle was reconfigured after it.
C3_Witness ==
    /\ Len(creations) = 1
    /\ creations[1].net = "inflight"
    /\ creations[1].request.options = [ocr |-> TRUE, tables |-> FALSE, images |-> TRUE]
    /\ _options = [ocr |-> FALSE, tables |-> TRUE, images |-> TRUE]

\* C4: a subscribe() whose cancellation function was called before the job
\* identifier resolved never constructs an event stream, whatever follows.
C4_EarlyCancelNeverOpens ==
    \A t \in Triggers : cancelledEarly[t] =>
        /\ streams[t] = 0
        /\ esState[t] = "none"
        /\ unsubscribe[t] = "null"

\* Cancelled early, then the identifier resolved and the continuation ran.
C4_Witness ==
    \E t \in Triggers :
        /\ cancelledEarly[t]
        /\ creations[1].state = "fulfilled"
        /\ tstate[t] = "skipped"
        /\ \E u \in Triggers : tkind[u] = "subscribe" /\ esState[u] = "open"

\* C5: when the creation request fails, there is still only one creation, the
\* handle keeps it memoized, and every trigger whose continuation has run received
\* that one failure: then() and wait() reject with it, subscribe()'s chain ends
\* with it and opens nothing.
C5_FailureSharedNoRetry ==
    (creations # <<>> /\ creations[1].net \in {"http", "network"}) =>
        /\ Len(creations) = 1
        /\ jobIdPromise = 1
        /\ _jobId = Null
        /\ \A t \in Triggers : Called(t) =>
            /\ tstate[t] \in {"pending", "awaitId", "rejected", "unhandled"}
            /\ tstate[t] \in {"rejected", "unhandled"} =>
                /\ tobs[t].kind = creations[1].net
                /\ creations[1].net = "http" => tobs[t].status = creations[1].status
            /\ tstate[t] = "rejected" => result[t] = tobs[t]
            /\ tkind[t] = "subscribe" => tstate[t] # "rejected" /\ streams[t] = 0

\* Two triggers have both received the same HTTP failure.
C5_Witness ==
    \E t, u \in Triggers :
        /\ tkind[t] = "then" /\ tkind[u] = "wait"
        /\ tobs[t] = HttpError(500, "oops") /\ result[t] = tobs[t]
        /\ tobs[u] = HttpError(500, "oops") /\ result[u] = tobs[u]

\* C6: wait() issues no status request before the creation has resolved, every
\* status request names the resolved identifier, and when creation fails wait()
\* rejects with that failure without any status request.
C6_WaitPollsResolvedIdOnly ==
    \A t \in Triggers : tkind[t] = "wait" =>
        /\ polls[t] > 0 =>
            /\ creations[tprom[t]].state = "fulfilled"
            /\ polled[t] = {creations[tprom[t]].id}
        /\ creations[tprom[t]].state = "rejected" =>
            /\ polls[t] = 0
            /\ tstate[t] \in {"awaitId", "rejected"}
            /\ tstate[t] = "rejected" =>
                   result[t] = RequestError(creations[tprom[t]].net,
                                            creations[tprom[t]].status)

\* A wait() in its second status request, both naming the resolved identifier.
C6_Witness ==
    \E t \in Triggers :
        /\ tkind[t] = "wait"
        /\ polls[t] = 2
        /\ polled[t] = {"job_b"}
        /\ creations[1].id = "job_b"

\* The first completed/failed answer the loop of t received, and its state.
FirstTerminalIs(t, state) ==
    /\ firstTerminal[t] > 0
    /\ lastResp[t].net = "ok"
    /\ lastResp[t].state = state

\* C7 as stated: when the first completed/failed answer is the k-th and is
\* completed, the loop has made exactly k status requests and returned success,
\* state completed, and the output's markdown, or its content when the markdown is
\* absent.
C7_ReturnsMarkdownElseContentWhenAbsent ==
    \A t \in Triggers : FirstTerminalIs(t, "completed") =>
        /\ tstate[t] = "resolved"
        /\ polls[t] = firstTerminal[t]
        /\ answered[t] = firstTerminal[t]
        /\ result[t].success = TRUE
        /\ result[t].state = "completed"
        /\ result[t].markdown =
               (IF lastResp[t].markdown # Absent THEN lastResp[t].markdown
                ELSE IF lastResp[t].content # Absent THEN lastResp[t].content
                ELSE "")

\* C7 amended: the same, with the markdown taken when it is a non-empty string,
\* else the content when that is a non-empty string, else the empty string.
C7_ReturnsFirstNonEmptyOfMarkdownContent ==
    \A t \in Triggers : FirstTerminalIs(t, "completed") =>
        /\ tstate[t] = "resolved"
        /\ polls[t] = firstTerminal[t]
        /\ answered[t] = firstTerminal[t]
        /\ result[t].success = TRUE
        /\ result[t].state = "completed"
        /\ result[t].markdown =
               (IF lastResp[t].markdown \notin {Absent, ""} THEN lastResp[t].markdown
                ELSE IF lastResp[t].content \notin {Absent, ""} THEN lastResp[t].content
                ELSE "")

\* Third answer completed, with an empty markdown beside a content.
C7_Witness ==
    \E t \in Triggers :
        /\ FirstTerminalIs(t, "completed")
        /\ firstTerminal[t] = 3
        /\ polls[t] = 3
        /\ lastResp[t].markdown = "" /\ lastResp[t].content = "TXT"
        /\ result[t] = [success |-> TRUE, markdown |-> "TXT", state |-> "completed"]

\* C8: when the first completed/failed answer is the k-th and is failed, the loop
\* has made exactly k status requests and rejected (never resolved) with an error
\* naming the job identifier and the answer's error text, or "Unknown error" when
\* the answer has none.
C8_FailedRejectsWithServerMessage ==
    \A t \in Triggers : FirstTerminalIs(t, "failed") =>
        /\ tstate[t] = "rejected"
        /\ polls[t] = firstTerminal[t]
        /\ answered[t] = firstTerminal[t]
        /\ result[t].kind = "jobFailed"
        /\ result[t].jobId = creations[tprom[t]].id
        /\ result[t].message =
               (IF lastResp[t].error = Absent THEN "Unknown error"
                ELSE lastResp[t].error)

\* The answers [not final, failed "bad pdf"]: two requests, rejected with it.
C8_Witness ==
    \E t \in Triggers :
        /\ FirstTerminalIs(t, "failed")
        /\ firstTerminal[t] = 2
        /\ polls[t] = 2
        /\ lastResp[t].error = "bad pdf"
        /\ result[t] = [kind |-> "jobFailed", jobId |-> "job_a", message |-> "bad pdf"]

\* An answer that arrived in this step, with a state other than completed and failed.
NonFinalAnswer(t) ==
    /\ answered'[t] = answered[t] + 1
    /\ lastResp'[t].net = "ok"
    /\ lastResp'[t].state \notin {"completed", "failed"}

\* C9: every answer whose state is neither completed nor failed starts exactly one
\* sleep and settles nothing; the end of a sleep is exactly one more status
\* request; and the loop has only settled on an answer that was completed or
\* failed, or on a failed request.  So while the answers stay created, active,
\* cancelled or archived the loop keeps requesting, one request per sleep.
C9_NonFinalStateSleepsAndPollsAgain ==
    /\ [][\A t \in Triggers :
            /\ NonFinalAnswer(t) =>
                /\ tstate'[t] = "sleeping"
                /\ sleeps'[t] = sleeps[t] + 1
                /\ polls'[t] = polls[t]
                /\ result'[t] = result[t]
            /\ (tstate[t] = "sleeping" /\ tstate'[t] # "sleeping") =>
                /\ tstate'[t] = "polling"
                /\ polls'[t] = polls[t] + 1
                /\ sleeps'[t] = sleeps[t]
                /\ polled'[t] = polled[t]]_vars
    /\ [](\A t \in Triggers :
            /\ tstate[t] = "polling" => polls[t] = sleeps[t] + 1
            /\ tstate[t] = "sleeping" => polls[t] = sleeps[t]
            /\ (Settled(t) /\ answered[t] > 0) =>
                   (lastResp[t].net = "ok" => lastResp[t].state \in {"completed", "failed"}))

\* Two answers in a row said cancelled: two sleeps, and the third request is out.
C9_Witness ==
    \E t \in Triggers :
        /\ tstate[t] = "polling"
        /\ answered[t] = 2
        /\ lastResp[t].net = "ok" /\ lastResp[t].state = "cancelled"
        /\ sleeps[t] = 2
        /\ polls[t] = 3

\* C10: if from some moment on the service reports the job completed or failed,
\* and status requests that succeed get answered, every wait() that was called on
\* a created job settles.
C10_WaitSettlesOnceJobIsFinal ==
    \A t \in Triggers :
        (<>[](srvState \in {"completed", "failed"})) =>
            ((tkind[t] = "wait" /\ creations[tprom[t]].net # "inflight") ~> Settled(t))

\* A wait() that slept through non-final answers and resolved.
C10_Witness ==
    \E t \in Triggers :
        /\ tkind[t] = "wait"
        /\ tstate[t] = "resolved"
        /\ sleeps[t] = 2
        /\ srvState = "completed"

\* C11: a status request that fails (no answer, or a non-2xx answer) rejects
\* waitForJob in the step its failure arrives, with that error (for a non-2xx
\* answer the error carries the status code and the raw body), starts no sleep,
\* and no status request follows it.
C11_FailedPollAbortsLoop ==
    /\ [](\A t \in Triggers : (answered[t] > 0 /\ lastResp[t].net # "ok") =>
            /\ tstate[t] = "rejected"
            /\ polls[t] = answered[t]
            /\ sleeps[t] = answered[t] - 1
            /\ lastResp[t].net = "network" => result[t] = [kind |-> "network"]
            /\ lastResp[t].net = "http" =>
                   result[t] = [kind |-> "http", status |-> lastResp[t].status,
                                body |-> lastResp[t].body])
    /\ [][\A t \in Triggers : (answered[t] > 0 /\ lastResp[t].net # "ok") =>
            /\ polls'[t] = polls[t]
            /\ polled'[t] = polled[t]
            /\ tstate'[t] = tstate[t]
            /\ result'[t] = result[t]]_vars

\* The second status request got a 500 with a body while the job was active.
C11_Witness ==
    \E t \in Triggers :
        /\ answered[t] = 2 /\ polls[t] = 2
        /\ lastResp[t].net = "http" /\ lastResp[t].body = "job not found"
        /\ result[t] = [kind |-> "http", status |-> 500, body |-> "job not found"]
        /\ tstate[t] = "rejected"
        /\ srvState = "active"

\* The calls a subscription made for its n-th event.
CallsOf(t, n) == SelectSeq(cblog[t], LAMBDA c : c.ev = n)

IsContentCall(c) == c.cb = "onContent"
IsContentChunk(e) == e.type = "content" /\ e.data.json

\* The arguments of a sequence of calls, and the payloads of a sequence of events.
ArgsOf(calls) == [i \in 1..Len(calls) |-> calls[i].arg]
DataOf(events) == [i \in 1..Len(events) |-> events[i].data]

\* C12: the calls of one subscription follow the order of transmission.  The
\* calls of an event come after all calls of the events before it; a parseable
\* progress (content) event that was dispatched made exactly one onProgress
\* (onContent) call, with its payload; and the onContent calls carry the chunks in
\* the order they arrived, whatever their pages.
C12_CallbacksFollowTransmissionOrder ==
    \A t \in Triggers :
        /\ \A i, j \in 1..Len(cblog[t]) :
               (i < j /\ cblog[t][j].ev # 0) => cblog[t][i].ev <= cblog[t][j].ev
        /\ \A i \in 1..Len(cblog[t]) : cblog[t][i].ev <= taken[t]
        /\ \A n \in 1..taken[t] :
               /\ (sent[t][n].type = "progress" /\ sent[t][n].data.json) =>
                      CallsOf(t, n) = <<[cb |-> "onProgress", ev |-> n,
                                         arg |-> sent[t][n].data]>>
               /\ (sent[t][n].type = "content" /\ sent[t][n].data.json) =>
                      CallsOf(t, n) = <<[cb |-> "onContent", ev |-> n,
                                         arg |-> sent[t][n].data]>>
        /\ ArgsOf(SelectSeq(cblog[t], IsContentCall))
               = DataOf(SelectSeq(SubSeq(sent[t], 1, taken[t]), IsContentChunk))

\* progress 42, content of page 2, content of page 1, complete: five calls in
\* that order, page 2 before page 1, and the stream closed.
C12_Witness ==
    \E t \in Triggers :
        /\ taken[t] = 4
        /\ esState[t] = "closed"
        /\ cblog[t] =
            << [cb |-> "onProgress", ev |-> 1,
                arg |-> [json |-> TRUE, progress |-> 42, stage |-> "ocr"]],
               [cb |-> "onContent", ev |-> 2,
                arg |-> [json |-> TRUE, page |-> 2, content |-> "B"]],
               [cb |-> "onContent", ev |-> 3,
                arg |-> [json |-> TRUE, page |-> 1, content |-> "A"]],
               [cb |-> "onStatus", ev |-> 4,
                arg |-> [json |-> TRUE, state |-> "completed"]],
               [cb |-> "onComplete", ev |-> 4,
                arg |-> [json |-> TRUE, state |-> "completed"]] >>

\* The n-th event of t was dispatched, was of one of these types and parsed.
ParsedEvent(t, n, types) ==
    /\ n \in 1..taken[t]
    /\ sent[t][n].type \in types
    /\ sent[t][n].data.json

\* A step in which the stream of t dispatched an event of one of these types.
Takes(t, types) ==
    /\ taken'[t] = taken[t] + 1
    /\ sent[t][taken[t] + 1].type \in types

\* The calls the state of a snapshot asks for: onStatus, then onComplete for
\* completed or onFailed for failed.
CallsByState(n, d) ==
    IF d.state = "completed"
    THEN <<[cb |-> "onStatus", ev |-> n, arg |-> d], [cb |-> "onComplete", ev |-> n, arg |-> d]>>
    ELSE IF d.state = "failed"
    THEN <<[cb |-> "onStatus", ev |-> n, arg |-> d], [cb |-> "onFailed", ev |-> n, arg |-> d]>>
    ELSE <<[cb |-> "onStatus", ev |-> n, arg |-> d]>>

\* C13: a parseable status event that was dispatched made the onStatus call first,
\* an onComplete call if and only if its state is completed, an onFailed call if
\* and only if its state is failed, and no other call; and the step that
\* dispatches a status event leaves the stream open, whatever the payload.
C13_StatusEventCallsByStateStaysOpen ==
    /\ [](\A t \in Triggers : \A n \in 1..taken[t] : ParsedEvent(t, n, {"status"}) =>
            LET d == sent[t][n].data
                calls == CallsOf(t, n)
            IN  /\ Len(calls) \in {1, 2}
                /\ calls[1] = [cb |-> "onStatus", ev |-> n, arg |-> d]
                /\ (d.state = "completed") <=>
                       (Len(calls) = 2 /\ calls[2] = [cb |-> "onComplete", ev |-> n, arg |-> d])
                /\ (d.state = "failed") <=>
                       (Len(calls) = 2 /\ calls[2] = [cb |-> "onFailed", ev |-> n, arg |-> d])
                /\ d.state \notin {"completed", "failed"} => Len(calls) = 1)
    /\ [][\A t \in Triggers : Takes(t, {"status"}) =>
            esState[t] = "open" /\ esState'[t] = "open"]_vars

\* A status event saying completed and one saying failed were both dispatched:
\* four calls, and the stream is open.
C13_Witness ==
    \E t \in Triggers :
        /\ taken[t] = 2
        /\ esState[t] = "open"
        /\ cblog[t] =
             CallsByState(1, [json |-> TRUE, state |-> "completed"])
             \o CallsByState(2, [json |-> TRUE, state |-> "failed"])
        /\ sent[t][1].type = "status" /\ sent[t][2].type = "status"

\* C14 as stated: a parseable complete event that was dispatched made the calls
\* onStatus and onComplete, a parseable failed event onStatus and onFailed, for
\* every payload, and the stream is closed.
C14_TerminalEventCallsByEventName ==
    \A t \in Triggers : \A n \in 1..taken[t] :
        /\ ParsedEvent(t, n, {"complete"}) =>
            /\ CallsOf(t, n) = <<[cb |-> "onStatus", ev |-> n, arg |-> sent[t][n].data],
                                 [cb |-> "onComplete", ev |-> n, arg |-> sent[t][n].data]>>
            /\ esState[t] = "closed"
        /\ ParsedEvent(t, n, {"failed"}) =>
            /\ CallsOf(t, n) = <<[cb |-> "onStatus", ev |-> n, arg |-> sent[t][n].data],
                                 [cb |-> "onFailed", ev |-> n, arg |-> sent[t][n].data]>>
            /\ esState[t] = "closed"

\* C14 amended: a parseable complete or failed event that was dispatched made the
\* onStatus call and then the call the state of its payload asks for (onComplete
\* for completed, onFailed for failed, none for any other state), whatever the
\* event's name; the stream is closed and no later event was dispatched.
C14_TerminalEventCallsByPayloadState ==
    \A t \in Triggers : \A n \in 1..taken[t] :
        ParsedEvent(t, n, {"complete", "failed"}) =>
            /\ CallsOf(t, n) = CallsByState(n, sent[t][n].data)
            /\ esState[t] = "closed"
            /\ taken[t] = n

\* A complete event whose payload says failed: onStatus and onFailed, closed,
\* with a further event left on the stream.
C14_Witness ==
    \E t \in Triggers :
        /\ taken[t] = 1
        /\ Len(sent[t]) = 2
        /\ sent[t][1] = [type |-> "complete", data |-> [json |-> TRUE, state |-> "failed"]]
        /\ cblog[t] = <<[cb |-> "onStatus", ev |-> 1, arg |-> sent[t][1].data],
                        [cb |-> "onFailed", ev |-> 1, arg |-> sent[t][1].data]>>
        /\ esState[t] = "closed"

\* C15 as stated: a parseable cancelled event that was dispatched made the
\* onStatus call and no other, whatever the state of its payload, and the stream
\* is closed.
C15_CancelledEventCallsStatusOnly ==
    \A t \in Triggers : \A n \in 1..taken[t] :
        ParsedEvent(t, n, {"cancelled"}) =>
            /\ CallsOf(t, n) = <<[cb |-> "onStatus", ev |-> n, arg |-> sent[t][n].data]>>
            /\ esState[t] = "closed"

\* C15 amended: a parseable cancelled event that was dispatched made the onStatus
\* call alone when the state of its payload is neither completed nor failed; with
\* a payload saying completed (failed) the onComplete (onFailed) call follows; the
\* stream is closed in every case.
C15_CancelledEventCallsStatusThenByState ==
    \A t \in Triggers : \A n \in 1..taken[t] :
        ParsedEvent(t, n, {"cancelled"}) =>
            /\ sent[t][n].data.state \notin {"completed", "failed"} =>
                   CallsOf(t, n) = <<[cb |-> "onStatus", ev |-> n, arg |-> sent[t][n].data]>>
            /\ sent[t][n].data.state = "completed" =>
                   CallsOf(t, n) = <<[cb |-> "onStatus", ev |-> n, arg |-> sent[t][n].data],
                                     [cb |-> "onComplete", ev |-> n, arg |-> sent[t][n].data]>>
            /\ sent[t][n].data.state = "failed" =>
                   CallsOf(t, n) = <<[cb |-> "onStatus", ev |-> n, arg |-> sent[t][n].data],
                                     [cb |-> "onFailed", ev |-> n, arg |-> sent[t][n].data]>>
            /\ esState[t] = "closed"

\* After a progress event, a cancelled event saying cancelled: one onStatus call
\* for it, and the stream is closed.
C15_Witness ==
    \E t \in Triggers :
        /\ taken[t] = 2
        /\ sent[t][1].type = "progress" /\ sent[t][1].data.json
        /\ sent[t][2] = [type |-> "cancelled", data |-> [json |-> TRUE, state |-> "cancelled"]]
        /\ CallsOf(t, 2) = <<[cb |-> "onStatus", ev |-> 2, arg |-> sent[t][2].data]>>
        /\ Len(cblog[t]) = 2
        /\ esState[t] = "closed"

\* C16: the step that dispatches a timeout event closes the stream and makes no
\* call; no call at all is recorded for a timeout event, and no event after it
\* was dispatched.
C16_TimeoutClosesSilently ==
    /\ [][\A t \in Triggers : Takes(t, {"timeout"}) =>
            /\ cblog'[t] = cblog[t]
            /\ esState'[t] = "closed"]_vars
    /\ [](\A t \in Triggers : \A n \in 1..taken[t] : sent[t][n].type = "timeout" =>
            /\ CallsOf(t, n) = <<>>
            /\ esState[t] = "closed"
            /\ taken[t] = n)

\* A progress event, then a timeout: the one onProgress call, and closed.
C16_Witness ==
    \E t \in Triggers :
        /\ taken[t] = 2
        /\ sent[t][1].type = "progress" /\ sent[t][1].data.json
        /\ sent[t][2].type = "timeout"
        /\ Len(cblog[t]) = 1 /\ cblog[t][1].cb = "onProgress"
        /\ esState[t] = "closed"

\* C17: a status, progress or content event whose payload does not parse made
\* exactly one call, onError with a message naming the event's type, and the step
\* that dispatches it leaves the stream open, so that the events after it are
\* dispatched like any other.
C17_ParseFailureReportsAndStaysOpen ==
    /\ [](\A t \in Triggers : \A n \in 1..taken[t] :
            (sent[t][n].type \in {"status", "progress", "content"} /\ ~sent[t][n].data.json) =>
                CallsOf(t, n) = <<[cb |-> "onError", ev |-> n,
                                   arg |-> <<"Failed to parse", sent[t][n].type, "event">>]>>)
    /\ [][\A t \in Triggers :
            (Takes(t, {"status", "progress", "content"}) /\ ~sent[t][taken[t] + 1].data.json) =>
                /\ esState[t] = "open" /\ esState'[t] = "open"
                /\ connected'[t]
                /\ Len(cblog'[t]) = Len(cblog[t]) + 1]_vars

\* A progress event that does not parse, then a content event that does: onError
\* naming progress, then onContent with the chunk, and the stream is open.
C17_Witness ==
    \E t \in Triggers :
        /\ taken[t] = 2
        /\ sent[t][1] = [type |-> "progress", data |-> [json |-> FALSE]]
        /\ cblog[t] = <<[cb |-> "onError", ev |-> 1,
                         arg |-> <<"Failed to parse", "progress", "event">>],
                        [cb |-> "onContent", ev |-> 2,
                         arg |-> [json |-> TRUE, page |-> 1, content |-> "A"]]>>
        /\ esState[t] = "open"

\* C18: a complete, failed or cancelled event whose payload does not parse made
\* the onError call, and the stream is closed.
C18_TerminalParseFailureCloses ==
    \A t \in Triggers : \A n \in 1..taken[t] :
        (sent[t][n].type \in {"complete", "failed", "cancelled"} /\ ~sent[t][n].data.json) =>
            /\ \E i \in 1..Len(cblog[t]) : cblog[t][i].cb = "onError" /\ cblog[t][i].ev = n
            /\ esState[t] = "closed"

\* The call eventSource.onerror makes.
ConnectionErrorCall == [cb |-> "onError", ev |-> 0, arg |-> "SSE connection error"]

\* C19: a connection error is reported by one onError call, after which the
\* stream is closed: the call is the last one of the subscription, there is only
\* one, and the subscription has constructed a single stream.
C19_TransportErrorReportsAndCloses ==
    \A t \in Triggers : \A i \in 1..Len(cblog[t]) : cblog[t][i] = ConnectionErrorCall =>
        /\ esState[t] = "closed"
        /\ i = Len(cblog[t])
        /\ streams[t] = 1

\* The connection failed on an open stream after one event, with another event
\* transmitted and never dispatched.
C19_Witness ==
    \E t \in Triggers :
        /\ connected[t]
        /\ taken[t] = 1 /\ Len(sent[t]) = 2
        /\ Len(cblog[t]) = 2 /\ cblog[t][1].cb = "onContent"
        /\ cblog[t][2] = ConnectionErrorCall
        /\ esState[t] = "closed"
        /\ ~cancelled[t]

\* C20: a closed stream stays closed: no step reopens it, constructs another
\* stream for the subscription, dispatches an event of it or makes a call.
C20_ClosedIsTerminal ==
    [][\A t \in Triggers : esState[t] = "closed" =>
            /\ esState'[t] = "closed"
            /\ streams'[t] = streams[t]
            /\ taken'[t] = taken[t]
            /\ cblog'[t] = cblog[t]]_vars

\* The consumer cancelled an open stream with one event dispatched and one
\* transmitted but not dispatched: that event is never handed to a listener.
C20_Witness ==
    \E t \in Triggers :
        /\ cancelled[t]
        /\ esState[t] = "closed"
        /\ connected[t]
        /\ taken[t] = 1 /\ Len(sent[t]) = 2
        /\ Len(cblog[t]) = 1 /\ cblog[t][1].cb = "onProgress"

\* A key that is a credential: set and not empty.
Available(key) == key # Absent /\ key # ""

C21_CancelIsIdempotent ==
    /\ [](\A t \in Triggers : tkind[t] = "subscribe" => ENABLED Cancel(t))
    /\ [][\A t \in Triggers :
            /\ cancelled[t] => cancelled'[t]
            /\ cancelled'[t] =>
                /\ cblog'[t] = cblog[t]
                /\ taken'[t] = taken[t]
                /\ streams'[t] = streams[t]
                /\ esState'[t] = (IF streams[t] = 0 THEN "none" ELSE "closed")]_vars

\* The stream was closed by a complete event, and the cancellation function was
\* called afterwards: nothing but the flag differs.
C21_Witness ==
    \E t \in Triggers :
        /\ cancelled[t]
        /\ ~cancelledEarly[t]
        /\ taken[t] = 1
        /\ sent[t][1] = [type |-> "complete", data |-> [json |-> TRUE, state |-> "completed"]]
        /\ Len(cblog[t]) = 2
        /\ esState[t] = "closed"

\* The service has transmitted an event that ends the stream of t.
EndingEventSent(t) ==
    \E n \in 1..Len(sent[t]) : sent[t][n].type \in {"complete", "failed", "cancelled", "timeout"}

\* C22: a stream on which the service has transmitted a complete, failed,
\* cancelled or timeout event is eventually closed (a connection error and the
\* consumer's cancellation close it at once, C19 and C21).
C22_EndingEventEventuallyCloses ==
    \A t \in Triggers : (streams[t] = 1 /\ EndingEventSent(t)) ~> (esState[t] = "closed")

\* C23: when the creation request of a handle fails, a subscriber that has not
\* cancelled has had its error callback invoked once its continuation has run,
\* and no stream was opened for it.
C23_CreationFailureCallsOnError ==
    \A t \in Triggers :
        (/\ tkind[t] = "subscribe"
         /\ tstate[t] \notin {"none", "awaitId"}
         /\ creations[tprom[t]].state = "rejected"
         /\ ~cancelled[t])
        => /\ \E i \in 1..Len(cblog[t]) : cblog[t][i].cb = "onError"
           /\ streams[t] = 0

\* C24: the jobId getter is null until the creation's promise has fulfilled and
\* is the identifier the service assigned from then on; it is null for ever
\* when the creation failed; once set it never changes; and a creation request
\* is sent only by a step that makes a trigger (then, wait, subscribe), never
\* by a read.
C24_JobIdNullUntilCreatedThenFixed ==
    /\ [](/\ JobIdGetter # Null =>
                /\ jobIdPromise # 0
                /\ creations[jobIdPromise].state = "fulfilled"
          /\ \A i \in 1..Len(creations) :
                /\ creations[i].state = "fulfilled" =>
                      /\ creations[i].id \in JobIds
                      /\ JobIdGetter = creations[i].id
                /\ creations[i].state = "rejected" => JobIdGetter = Null)
    /\ [][/\ JobIdGetter # Null => JobIdGetter' = JobIdGetter
          /\ Len(creations') > Len(creations) =>
                \E t \in Triggers : tkind[t] = "none" /\ tkind'[t] # "none"]_vars

C24_Witness ==
    /\ JobIdGetter \in JobIds
    /\ creations[jobIdPromise].id = JobIdGetter
    /\ \E t \in Triggers : tobs[t] = IdValue(JobIdGetter)

\* C25: every request sent to the service (the creation by URL or by file,
\* every status poll, the request that opens the event stream) carries the
\* client's key as a bearer credential in its Authorization header.
C25_EveryRequestCarriesBearer ==
    /\ \A i \in 1..Len(creations) :
            creations[i].request.auth = <<"Bearer", client.apiKey>>
    /\ \A t \in Triggers : \A jobId \in polled[t] :
            StatusRequest(jobId).auth = <<"Bearer", client.apiKey>>
    /\ \A t \in Triggers : streams[t] > 0 =>
            StreamRequest(tobs[t].id).auth = <<"Bearer", client.apiKey>>

\* C27: the configuration bundle of every creation request carries a
\* page-streaming setting and a caching setting next to ocr, tables and images,
\* as set on the handle before the first trigger.
C27_BundleCarriesPageStreamingAndCaching ==
    \A i \in 1..Len(creations) :
        {"pageStreaming", "caching"} \subseteq DOMAIN creations[i].request.options

\* C28 as stated: once the creation was triggered the options getter reports
\* the configuration that was captured for the creation request, whatever
\* configuration calls follow.
C28_GetterKeepsCapturedConfiguration ==
    creations # <<>> => OptionsGetter = creations[1].request.options

\* C28: a configuration call made after the creation was triggered does not
\* raise and changes neither the captured request, the creation's state, the
\* memoized promise, the jobId nor any trigger; the options getter, however,
\* reports the setting the call made.
C28_LateConfigurationChangesGetterOnly ==
    /\ [](handle # "none" => \A b \in BOOLEAN :
            ENABLED WithOCR(b) /\ ENABLED WithTables(b) /\ ENABLED WithImages(b))
    /\ [][(creations # <<>> /\ OptionsGetter' # OptionsGetter) =>
            /\ creations' = creations
            /\ jobIdPromise' = jobIdPromise
            /\ JobIdGetter' = JobIdGetter
            /\ handle' = handle
            /\ <<trigVars, waitVars, subVars>>' = <<trigVars, waitVars, subVars>>]_vars

\* The creation succeeded and the getter reports a setting the request did not
\* carry.
C28_Witness ==
    /\ Len(creations) = 1
    /\ creations[1].state = "fulfilled"
    /\ creations[1].request.options = DefaultOptions
    /\ OptionsGetter = [ocr |-> TRUE, tables |-> FALSE, images |-> TRUE]

\* The toggles in which two configurations differ.
ChangedToggles(old, new) == {k \in DOMAIN old : old[k] # new[k]}

\* C29: a new handle has ocr, tables and images disabled; a step that changes
\* the configuration of an existing handle changes exactly one toggle and
\* leaves the other two, the jobId, the memoized promise and the creation
\* unchanged; and each toggle can be set to either value at any time, so the
\* final configuration holds, per toggle, the value last given to it, in
\* whatever order the toggles were set.
C29_EachCallSetsItsOwnToggleOnly ==
    /\ [](handle # "none" => \A b \in BOOLEAN :
            /\ ENABLED (WithOCR(b) /\ _options' = [_options EXCEPT !.ocr = b])
            /\ ENABLED (WithTables(b) /\ _options' = [_options EXCEPT !.tables = b])
            /\ ENABLED (WithImages(b) /\ _options' = [_options EXCEPT !.images = b]))
    /\ [][/\ handle' # handle => OptionsGetter' = DefaultOptions
          /\ (handle' = handle /\ OptionsGetter' # OptionsGetter) =>
                /\ Cardinality(ChangedToggles(OptionsGetter, OptionsGetter')) = 1
                /\ JobIdGetter' = JobIdGetter
                /\ jobIdPromise' = jobIdPromise
                /\ creations' = creations]_vars

\* ocr and tables were enabled on a handle, images was left alone, and the
\* creation request was sent with exactly that configuration.
C29_Witness ==
    /\ OptionsGetter = [ocr |-> TRUE, tables |-> TRUE, images |-> FALSE]
    /\ Len(creations) = 1
    /\ creations[1].request.options = OptionsGetter
    /\ creations[1].net = "ok"

\* All that belongs to the subscription t.
SubscriptionOf(t) ==
    <<tkind[t], tstate[t], tobs[t], cancelled[t], unsubscribe[t], streams[t],
      esState[t], connected[t], sent[t], taken[t], cblog[t]>>

\* Some listener of the stream of t can run.
CanDispatch(t) ==
    ENABLED (\/ StatusListener(t) \/ ProgressListener(t) \/ ContentListener(t)
             \/ CompleteListener(t) \/ FailedListener(t) \/ CancelledListener(t)
             \/ TimeoutListener(t))

\* C30: the subscribe() calls on one handle share one created job and each one
\* that was not cancelled before its continuation ran has opened exactly one
\* stream of its own for that job.  A step changes one subscription at most, so
\* cancelling or closing one stream leaves the others as they are; and a stream
\* that is open and connected with an event waiting can dispatch it, whatever
\* the state of the others.
C30_SubscriptionsAreIndependent ==
    /\ [](/\ Len(creations) <= 1
          /\ \A t \in Triggers :
                /\ streams[t] <= 1
                /\ streams[t] = 1 => tobs[t] = IdValue(creations[1].id)
                /\ (/\ tkind[t] = "subscribe"
                    /\ tstate[t] # "awaitId"
                    /\ creations[1].state = "fulfilled"
                    /\ tstate[t] # "skipped") => streams[t] = 1
                /\ tstate[t] = "skipped" => cancelled[t] /\ streams[t] = 0
                /\ (Deliverable(t) /\ taken[t] < Len(sent[t])) => CanDispatch(t))
    /\ [][\A t, u \in Triggers :
            (t # u /\ SubscriptionOf(t)' # SubscriptionOf(t)) =>
                SubscriptionOf(u)' = SubscriptionOf(u)]_vars

\* The first stream was cancelled while open, the second one has delivered two
\* events and closed on the second.
C30_Witness ==
    /\ streams = [t \in Triggers |-> IF t \in {1, 2} THEN 1 ELSE 0]
    /\ cancelled[1] /\ ~cancelled[2]
    /\ esState[1] = "closed" /\ taken[1] = 0 /\ Len(sent[1]) = 1
    /\ esState[2] = "closed" /\ taken[2] = 2
    /\ [i \in 1..Len(cblog[2]) |-> cblog[2][i].cb] = <<"onProgress", "onStatus", "onComplete">>

\* C31: a call of the cancellation function sends no request (no creation, no
\* status request, no stream request), leaves the job's state at the service
\* and the events it transmitted as they are; and no step of the client
\* changes the job's state: a step that changes it changes nothing else.
C31_CancelIsLocalClientOnlyReads ==
    [][/\ \A t \in Triggers : Cancel(t) =>
            /\ srvState' = srvState
            /\ creations' = creations
            /\ polls' = polls /\ polled' = polled
            /\ streams' = streams
            /\ sent' = sent
       /\ srvState' # srvState =>
            <<handleVars, trigVars, waitVars, subVars>>' =
                <<handleVars, trigVars, waitVars, subVars>>]_vars

\* The subscription was cancelled while its stream was open with an event
\* undelivered, and the job went on to complete: wait() has resolved.
C31_Witness ==
    /\ cancelled[2] /\ ~cancelledEarly[2]
    /\ streams[2] = 1 /\ esState[2] = "closed"
    /\ taken[2] < Len(sent[2])
    /\ srvState = "completed"
    /\ tstate[1] = "resolved"

\* C32: in a runtime without EventSource a subscription whose continuation
\* called subscribeToJob has had exactly one callback invoked, the error
\* callback with the message that EventSource is not supported; no stream is
\* ever opened and no event reaches it; and the function it got back does
\* nothing: a cancellation changes the closure's flag only.
C32_NoEventSourceReportsOnceOpensNothing ==
    /\ [](\A t \in Triggers :
            /\ ~esSupported =>
                /\ streams[t] = 0 /\ esState[t] = "none"
                /\ ~connected[t] /\ sent[t] = <<>>
                /\ tstate[t] # "subscribed"
                /\ cblog[t] = (IF tstate[t] = "unsupported"
                               THEN <<Call("onError", 0, "EventSource not supported")>>
                               ELSE <<>>)
            /\ tstate[t] = "unsupported" => ~esSupported /\ unsubscribe[t] = "noop")
    /\ [][\A t \in Triggers : (tstate[t] = "unsupported" /\ Cancel(t)) =>
            /\ tstate'[t] = "unsupported"
            /\ <<unsubscribe, streams, esState, cblog, streamVars>>' =
                    <<unsubscribe, streams, esState, cblog, streamVars>>]_vars

\* subscribeToJob reported the missing EventSource and the consumer then
\* called the function it got back.
C32_Witness ==
    /\ ~esSupported
    /\ tstate[1] = "unsupported"
    /\ tobs[1] = IdValue("job_a")
    /\ cancelled[1]
    /\ Len(cblog[1]) = 1

\* The positions in the log of t of the calls of one callback.
CallsTo(t, cb) == {i \in 1..Len(cblog[t]) : cblog[t][i].cb = cb}

\* C35 as stated: a subscription's complete callback was called once at most,
\* and so was its failed callback.
C35_CompleteAndFailedAtMostOnce ==
    \A t \in Triggers :
        /\ Cardinality(CallsTo(t, "onComplete")) <= 1
        /\ Cardinality(CallsTo(t, "onFailed")) <= 1

\* C35 amended: the complete (failed) callback is called once for every
\* dispatched status, complete, failed or cancelled event whose payload parses
\* and says completed (failed), and for nothing else, hence as often as such
\* events were dispatched.  Of two such calls the earlier one was made for a
\* status event, which leaves the stream open; an event named complete, failed
\* or cancelled makes one such call at most and it is the last one.
C35_OncePerSnapshotSayingSo ==
    \A t \in Triggers : \A cb \in {"onComplete", "onFailed"} :
        LET st == IF cb = "onComplete" THEN "completed" ELSE "failed" IN
        /\ \A i \in CallsTo(t, cb) :
                /\ ParsedEvent(t, cblog[t][i].ev, StatusEventTypes)
                /\ sent[t][cblog[t][i].ev].data.state = st
        /\ \A n \in 1..taken[t] :
                (ParsedEvent(t, n, StatusEventTypes) /\ sent[t][n].data.state = st) =>
                    Cardinality({i \in CallsTo(t, cb) : cblog[t][i].ev = n}) = 1
        /\ \A i, j \in CallsTo(t, cb) : i < j =>
                /\ cblog[t][i].ev < cblog[t][j].ev
                /\ sent[t][cblog[t][i].ev].type = "status"

\* A status event saying completed and then the complete event: the complete
\* callback was called twice and the stream is closed.
C35_Witness ==
    \E t \in Triggers :
        /\ taken[t] = 2
        /\ sent[t][1] = Event("status", [json |-> TRUE, state |-> "completed"])
        /\ sent[t][2] = Event("complete", [json |-> TRUE, state |-> "completed"])
        /\ Cardinality(CallsTo(t, "onComplete")) = 2
        /\ esState[t] = "closed"

\* The content chunks the stream of t has delivered, in arrival order.
ArrivedChunks(t) ==
    IF t = 0 THEN <<>>
    ELSE DataOf(SelectSeq(SubSeq(sent[t], 1, taken[t]), IsContentChunk))

\* The snapshots the callbacks of t were called with, in order.
IsSnapshotCall(c) == c.cb \in {"onStatus", "onComplete", "onFailed"}
Snapshots(t) == IF t = 0 THEN <<>> ELSE ArgsOf(SelectSeq(cblog[t], IsSnapshotCall))

Range(seq) == {seq[i] : i \in 1..Len(seq)}

Ascending(chunks) ==
    \A i, j \in 1..Len(chunks) : i < j => chunks[i].page <= chunks[j].page

\* C33: the hook's status is the latest snapshot of the current job.  When it
\* has no output content or markdown (or there is no status), the hook's
\* content is the delivered chunks of the current job in ascending page order,
\* their texts joined by a blank line, whatever order they arrived in, and null
\* when there is none; when it has output content, the content is that, and
\* otherwise the output markdown.
C33_ContentIsFinalOutputElseChunksByPage ==
    hook.mounted =>
        LET cur == hook.unsubscribeRef
            snaps == Snapshots(cur)
            byPage == SortByPage(ArrivedChunks(cur))
            latest == snaps[Len(snaps)]
        IN  /\ hook.status = (IF snaps = <<>> THEN Unset ELSE Value(latest))
            /\ Ascending(byPage)
            /\ Len(byPage) = Len(ArrivedChunks(cur))
            /\ \A c \in Range(ArrivedChunks(cur)) : \E i \in 1..Len(byPage) : byPage[i] = c
            /\ IF snaps # <<>> /\ "output" \in DOMAIN latest
                    /\ Truthy(latest.output, "content")
               THEN HookContent(hook) = Value(<<latest.output.content>>)
               ELSE IF snaps # <<>> /\ "output" \in DOMAIN latest
                    /\ Truthy(latest.output, "markdown")
               THEN HookContent(hook) = Value(<<latest.output.markdown>>)
               ELSE IF byPage = <<>> THEN HookContent(hook) = Unset
               ELSE HookContent(hook) = Value(JoinBlankLine(byPage))

\* Page 2 arrived before page 1 and nothing was rendered since: the content is
\* page 1, a blank line, page 2.
C33_Witness ==
    /\ hook.mounted
    /\ hook.contentChunks = << [json |-> TRUE, page |-> 2, content |-> "B"],
                               [json |-> TRUE, page |-> 1, content |-> "A"] >>
    /\ HookContent(hook) = Value(<<"A", "\n\n", "B">>)

\* C34: every subscription the hook made other than the one it holds was
\* cancelled and has no open stream; one that was cancelled before its job
\* identifier resolved never opens one.  A step invokes callbacks of the
\* subscription the hook holds only, and the hook's status, progress and error
\* change only by such a call, by the start of a job or by a reset.
C34_OnlyTheHeldSubscriptionIsLive ==
    /\ [](hook.mounted => \A t \in Triggers :
            (tkind[t] = "subscribe" /\ t # hook.unsubscribeRef) =>
                /\ cancelled[t]
                /\ esState[t] # "open"
                /\ cancelledEarly[t] => streams[t] = 0)
    /\ [][hook.mounted =>
            /\ \A t \in Triggers : t # hook.unsubscribeRef =>
                    /\ cblog'[t] = cblog[t]
                    /\ taken'[t] = taken[t]
                    /\ streams'[t] = streams[t]
            /\ (/\ hook'.unsubscribeRef = hook.unsubscribeRef
                /\ <<hook.status, hook.progress, hook.error>>'
                        # <<hook.status, hook.progress, hook.error>>) =>
                    cblog'[hook.unsubscribeRef] # cblog[hook.unsubscribeRef]]_vars

\* The first job's stream was closed by the start of the second job with an
\* event undelivered, and the hook shows a snapshot of the second job.
C34_Witness ==
    /\ hook.mounted
    /\ hook.unsubscribeRef = 2
    /\ cancelled[1] /\ esState[1] = "closed"
    /\ taken[1] < Len(sent[1])
    /\ taken[2] = 1
    /\ hook.status = Value(sent[2][1].data)

\* C36: whenever the status the hook mirrors says failed, the hook's error is
\* set.
C36_FailedStatusHasError ==
    (hook.mounted /\ hook.status.set /\ hook.status.value.state = "failed")
        => hook.error.set

\* A snapshot saying failed, without error text, was delivered on a status
\* event: the error is "Job failed" and the stream is open.
C36_Witness ==
    /\ hook.mounted
    /\ hook.unsubscribeRef = 1
    /\ hook.status = Value([json |-> TRUE, state |-> "failed"])
    /\ hook.error = Value("Job failed")
    /\ esState[1] = "open"

\* C37: the hook's contentChunks is the sequence of the content chunks the
\* current job's stream has delivered, in the order they arrived, whether or
\* not the content was derived from them since.
C37_ChunksStayInArrivalOrder ==
    hook.mounted => hook.contentChunks = ArrivedChunks(hook.unsubscribeRef)

====
